---- MODULE Spec2Model ----
(***************************************************************************)
(* A model of the Z80 assembler pipeline: Lexer -> Parser (two passes) ->  *)
(* CodeGenerator -> Z80Assembler.assemble().                                *)
(*                                                                         *)
(* Representation of JavaScript values:                                    *)
(*   - the source text and STRING token values are sequences of one-       *)
(*     character strings (they are indexed); every other JS string is a    *)
(*     TLA+ string;                                                        *)
(*   - JS array indices are kept 0-based (tokens[pos] is p.tokens[pos+1]); *)
(*   - an operand is a record [k, v]: k = "num" (typeof number), "str"     *)
(*     (typeof string), "ref" ({type:'LABEL_REF', name}) or "undef";       *)
(*   - a method that may throw returns a record with field exc: NoExc or   *)
(*     the thrown Error as [kind, message]; the object state at the throw  *)
(*     is returned with it.                                                *)
(***************************************************************************)
EXTENDS Integers, Sequences, FiniteSets, TLC

VARIABLES
  source,        \* the argument of the current assemble() call
  stage,         \* position inside assemble()
  asmErrors,     \* Z80Assembler.errors   (instance field)
  asmWarnings,   \* Z80Assembler.warnings (instance field)
  lexer,         \* the Lexer object of this call
  tokens,        \* lexer.tokenize() result of this call
  parser,        \* the Parser object of this call
  codegen,       \* the CodeGenerator object of this call and generate()'s locals
  result,        \* the value assemble() returned
  stagesRun,     \* auxiliary: the stages this call has executed, in order
  calls,         \* number of assemble() calls made on this instance
  history        \* auxiliary: the earlier calls on this instance, as [source, result]

vars == << source, stage, asmErrors, asmWarnings, lexer, tokens, parser, codegen,
           result, stagesRun, calls, history >>

-----------------------------------------------------------------------------
(* constants.js *)

DEFAULT_ORG == 16896

TOKEN_LABEL == "LABEL"

TOKEN_MNEMONIC == "MNEMONIC"

TOKEN_REGISTER == "REGISTER"

TOKEN_NUMBER == "NUMBER"

TOKEN_STRING == "STRING"

TOKEN_DIRECTIVE == "DIRECTIVE"

TOKEN_OPERATOR == "OPERATOR"

TOKEN_LPAREN == "LPAREN"

TOKEN_RPAREN == "RPAREN"

TOKEN_COMMA == "COMMA"

TOKEN_COLON == "COLON"

TOKEN_NEWLINE == "NEWLINE"

TOKEN_EOF == "EOF"

TOKEN_COMMENT == "COMMENT"

REG8 ==
  [r \in {"B", "C", "D", "E", "H", "L", "(HL)", "A"} |->
     CASE r = "B" -> 0 [] r = "C" -> 1 [] r = "D" -> 2 [] r = "E" -> 3
       [] r = "H" -> 4 [] r = "L" -> 5 [] r = "(HL)" -> 6 [] r = "A" -> 7]

REG16 ==
  [r \in {"BC", "DE", "HL", "SP"} |->
     CASE r = "BC" -> 0 [] r = "DE" -> 1 [] r = "HL" -> 2 [] r = "SP" -> 3]

STACK_REG ==
  [r \in {"BC", "DE", "HL", "AF"} |->
     CASE r = "BC" -> 0 [] r = "DE" -> 1 [] r = "HL" -> 2 [] r = "AF" -> 3]

CONDITIONS ==
  [c \in {"NZ", "Z", "NC", "C", "PO", "PE", "P", "M"} |->
     CASE c = "NZ" -> 0 [] c = "Z" -> 1 [] c = "NC" -> 2 [] c = "C" -> 3
       [] c = "PO" -> 4 [] c = "PE" -> 5 [] c = "P" -> 6 [] c = "M" -> 7]

MNEMONICS ==
  { "ADC", "ADD", "SBC", "SUB", "INC", "DEC", "NEG", "DAA", "CPL",
    "AND", "OR", "XOR", "CP",
    "RLCA", "RLA", "RRCA", "RRA", "RLC", "RL", "RRC", "RR",
    "SLA", "SRA", "SLL", "SRL", "RLD", "RRD",
    "BIT", "SET", "RES",
    "JP", "JR", "DJNZ", "CALL", "RET", "RETI", "RETN", "RST",
    "LD", "PUSH", "POP", "EX", "EXX",
    "LDI", "LDIR", "LDD", "LDDR",
    "CPI", "CPIR", "CPD", "CPDR",
    "INI", "INIR", "IND", "INDR",
    "OUTI", "OTIR", "OUTD", "OTDR",
    "IN", "OUT",
    "NOP", "HALT", "DI", "EI", "IM", "SCF", "CCF" }

REGISTERS ==
  { "A", "B", "C", "D", "E", "H", "L",
    "AF", "BC", "DE", "HL", "SP", "PC",
    "IX", "IY", "IXH", "IXL", "IYH", "IYL",
    "I", "R", "AF'" }

DIRECTIVES ==
  { ".ORG", ".DB", ".DW", ".EQU", ".DEFL", ".END", ".DS",
    "ORG", "DB", "DW", "EQU", "DEFL", "END", "DS",
    "DEFB", "DEFW", "DEFM", "DEFS" }

-----------------------------------------------------------------------------
(* JavaScript primitives used by the program *)

\* The printable ASCII characters in code order; Ascii[i] has code 31 + i
\* (the entry of code 96 is a placeholder no character equals).
Ascii ==
  << " ", "!", "\"", "#", "$", "%", "&", "'", "(", ")", "*", "+", ",", "-", ".", "/",
     "0", "1", "2", "3", "4", "5", "6", "7", "8", "9", ":", ";", "<", "=", ">", "?",
     "@", "A", "B", "C", "D", "E", "F", "G", "H", "I", "J", "K", "L", "M", "N", "O",
     "P", "Q", "R", "S", "T", "U", "V", "W", "X", "Y", "Z", "[", "\\", "]", "^", "_",
     "GRAVE", "a", "b", "c", "d", "e", "f", "g", "h", "i", "j", "k", "l", "m", "n", "o",
     "p", "q", "r", "s", "t", "u", "v", "w", "x", "y", "z", "{", "|", "}", "~" >>

\* String.prototype.charCodeAt for one character (tab 9, LF 10, CR 13).
CharCode(c) ==
  CASE c = "\t" -> 9
    [] c = "\n" -> 10
    [] c = "\r" -> 13
    [] OTHER -> 31 + (CHOOSE i \in 1..Len(Ascii) : Ascii[i] = c)

\* String.prototype.toUpperCase for one character.
ToUpper(c) ==
  IF CharCode(c) >= 97 /\ CharCode(c) <= 122 THEN Ascii[CharCode(c) - 32 - 31] ELSE c

\* What reading past the end of a string or an array yields.
Undefined == "undefined"

\* The characters String.prototype.trim removes that a source here can hold.
TrimSpace == {" ", "\t", "\n", "\r"}

RECURSIVE TrimStart(_)
TrimStart(s) ==
  IF s # << >> /\ Head(s) \in TrimSpace THEN TrimStart(Tail(s)) ELSE s

RECURSIVE TrimEnd(_)
TrimEnd(s) ==
  IF s # << >> /\ s[Len(s)] \in TrimSpace THEN TrimEnd(SubSeq(s, 1, Len(s) - 1)) ELSE s

\* The string as it is, for a check of source.length without trim().
NoTrim(s) == s

\* s.trim()
Trim(s) == TrimEnd(TrimStart(s))

\* The JS string holding the characters of s.
RECURSIVE Str(_)
Str(s) == IF s = << >> THEN "" ELSE Head(s) \o Str(Tail(s))

\* The value of one digit character, or -1.
DigitValue(c) ==
  LET code == CharCode(c) IN
  IF code >= 48 /\ code <= 57 THEN code - 48
  ELSE IF code >= 65 /\ code <= 90 THEN code - 55
  ELSE IF code >= 97 /\ code <= 122 THEN code - 87
  ELSE -1

\* parseInt yields NaN when no digit of the radix starts the string.
NaN == "NaN"

RECURSIVE ParseIntFrom(_, _, _, _)
ParseIntFrom(s, i, radix, acc) ==
  IF i <= Len(s) /\ DigitValue(s[i]) >= 0 /\ DigitValue(s[i]) < radix
  THEN ParseIntFrom(s, i + 1, radix, acc * radix + DigitValue(s[i]))
  ELSE acc

\* parseInt(s, radix) on a string of digits and letters.
ParseInt(s, radix) ==
  IF s # << >> /\ DigitValue(s[1]) >= 0 /\ DigitValue(s[1]) < radix
  THEN ParseIntFrom(s, 1, radix, 0)
  ELSE NaN

RECURSIVE BitAndN(_, _, _)
BitAndN(a, b, n) ==
  IF n = 0 THEN 0
  ELSE (a % 2) * (b % 2) + 2 * BitAndN(a \div 2, b \div 2, n - 1)

\* a & b for a 32-bit a and a mask b in 0..0xFFFF.
BitAnd(a, b) == BitAndN(a % 65536, b, 16)

\* a | b for a, b in 0..0xFF.
BitOr(a, b) == a + b - BitAndN(a, b, 8)

\* (v >> n) & 0xFF.
ShrByte(v, n) == (v \div (2 ^ n)) % 256

-----------------------------------------------------------------------------
(* lexer.js (src/unnamed/part_007) *)

\* A call f(...args) of a function or method of the program.  The functions
\* below reach each other through it; its definition follows the last of them.
RECURSIVE Invoke(_, _)

NewLexer(src) == [source |-> src, pos |-> 0, line |-> 1, column |-> 1, tokens |-> << >>]

isDigit(c) == c # Undefined /\ c \in {"0", "1", "2", "3", "4", "5", "6", "7", "8", "9"}

isHexDigit(c) ==
  isDigit(c) \/ (c # Undefined /\ c \in {"A", "B", "C", "D", "E", "F", "a", "b", "c", "d", "e", "f"})

isAlpha(c) ==
  /\ c # Undefined
  /\ c \notin {"\t", "\n", "\r"}
  /\ \/ (CharCode(c) >= 65 /\ CharCode(c) <= 90)
     \/ (CharCode(c) >= 97 /\ CharCode(c) <= 122)

isAlphaNumeric(c) == isAlpha(c) \/ isDigit(c)

LexIsAtEnd(lx) == lx.pos >= Len(lx.source)

LexPeek(lx) == IF lx.pos < Len(lx.source) THEN lx.source[lx.pos + 1] ELSE Undefined

LexPeekNext(lx) == IF lx.pos + 1 < Len(lx.source) THEN lx.source[lx.pos + 2] ELSE Undefined

LexAdvance(lx) == [lx EXCEPT !.pos = @ + 1, !.column = @ + 1]

makeToken(lx, type, value) ==
  [type |-> type, value |-> value, line |-> lx.line, column |-> lx.column]

LexPush(lx, tok) == [lx EXCEPT !.tokens = Append(@, tok)]

RECURSIVE skipWhitespace(_)
skipWhitespace(lx) ==
  IF ~LexIsAtEnd(lx) /\ LexPeek(lx) \in {" ", "\t", "\r"}
  THEN skipWhitespace(LexAdvance(lx))
  ELSE lx

\* The loop `while (pred(peek())) value += advance()`: [lx, value].
RECURSIVE scanWhileHex(_, _)
scanWhileHex(lx, value) ==
  IF isHexDigit(LexPeek(lx))
  THEN scanWhileHex(LexAdvance(lx), Append(value, LexPeek(lx)))
  ELSE [lx |-> lx, value |-> value]

RECURSIVE scanWhileBinary(_, _)
scanWhileBinary(lx, value) ==
  IF LexPeek(lx) = "0" \/ LexPeek(lx) = "1"
  THEN scanWhileBinary(LexAdvance(lx), Append(value, LexPeek(lx)))
  ELSE [lx |-> lx, value |-> value]

scanNumber(lx) ==
  LET startCol == lx.column
      numTok(l, v) == [type |-> TOKEN_NUMBER, value |-> v, line |-> l.line, column |-> startCol]
  IN
  IF LexPeek(lx) = "$" THEN
    LET r == scanWhileHex(LexAdvance(lx), << >>)
    IN LexPush(r.lx, numTok(r.lx, ParseInt(r.value, 16)))
  ELSE IF LexPeek(lx) = "%" THEN
    LET r == scanWhileBinary(LexAdvance(lx), << >>)
    IN LexPush(r.lx, numTok(r.lx, ParseInt(r.value, 2)))
  ELSE
    LET r == scanWhileHex(lx, << >>)
    IN IF LexPeek(r.lx) # Undefined /\ ToUpper(LexPeek(r.lx)) = "H"
       THEN LET l2 == LexAdvance(r.lx)
            IN LexPush(l2, numTok(l2, ParseInt(r.value, 16)))
       ELSE LexPush(r.lx, numTok(r.lx, ParseInt(r.value, 10)))

RECURSIVE scanWhileIdent(_, _)
scanWhileIdent(lx, value) ==
  IF isAlphaNumeric(LexPeek(lx)) \/ LexPeek(lx) = "_" \/ LexPeek(lx) = "."
  THEN scanWhileIdent(LexAdvance(lx), Append(value, LexPeek(lx)))
  ELSE [lx |-> lx, value |-> value]

UpperStr(s) == Str([i \in 1..Len(s) |-> ToUpper(s[i])])

scanIdentifier(lx) ==
  LET startCol == lx.column
      r == scanWhileIdent(lx, << >>)
      isAF == UpperStr(r.value) = "AF" /\ LexPeek(r.lx) = "'"
      l2 == IF isAF THEN LexAdvance(r.lx) ELSE r.lx
      value == IF isAF THEN Append(r.value, "'") ELSE r.value
      upper == UpperStr(value)
      type == IF upper \in MNEMONICS THEN TOKEN_MNEMONIC
              ELSE IF upper \in REGISTERS THEN TOKEN_REGISTER
              ELSE IF upper \in DIRECTIVES THEN TOKEN_DIRECTIVE
              ELSE TOKEN_LABEL
  IN LexPush(l2, [type |-> type, value |-> upper, line |-> l2.line, column |-> startCol])

RECURSIVE scanWhileComment(_, _)
scanWhileComment(lx, value) ==
  IF ~LexIsAtEnd(lx) /\ LexPeek(lx) # "\n"
  THEN scanWhileComment(LexAdvance(lx), Append(value, LexPeek(lx)))
  ELSE [lx |-> lx, value |-> value]

scanComment(lx) ==
  LET startCol == lx.column
      r == scanWhileComment(LexAdvance(lx), << >>)
  IN LexPush(r.lx, [type |-> TOKEN_COMMENT, value |-> Str(Trim(r.value)),
                    line |-> r.lx.line, column |-> startCol])

RECURSIVE scanWhileString(_, _, _)
scanWhileString(lx, quote, value) ==
  IF ~LexIsAtEnd(lx) /\ LexPeek(lx) # quote /\ LexPeek(lx) # "\n"
  THEN scanWhileString(LexAdvance(lx), quote, Append(value, LexPeek(lx)))
  ELSE [lx |-> lx, value |-> value]

scanString(lx, quote) ==
  LET startCol == lx.column
      r == scanWhileString(LexAdvance(lx), quote, << >>)
      l2 == IF LexPeek(r.lx) = quote THEN LexAdvance(r.lx) ELSE r.lx
  IN LexPush(l2, [type |-> TOKEN_STRING, value |-> r.value,
                  line |-> l2.line, column |-> startCol])

singleChars ==
  [c \in {"(", ")", ",", ":", "+", "-", "*", "/", "$"} |->
     CASE c = "(" -> TOKEN_LPAREN [] c = ")" -> TOKEN_RPAREN
       [] c = "," -> TOKEN_COMMA [] c = ":" -> TOKEN_COLON
       [] OTHER -> TOKEN_OPERATOR]

scanToken(lx0) ==
  LET lx == skipWhitespace(lx0)
      char == LexPeek(lx)
  IN
  IF LexIsAtEnd(lx) THEN lx
  ELSE IF char = ";" THEN Invoke("scanComment", << lx >>)
  ELSE IF char = "\n" THEN
    [LexAdvance(LexPush(lx, makeToken(lx, TOKEN_NEWLINE, "\\n")))
       EXCEPT !.line = @ + 1, !.column = 1]
  ELSE IF isDigit(char) \/ char = "%" THEN Invoke("scanNumber", << lx >>)
  ELSE IF char = "$" THEN
    IF LexPeekNext(lx) # Undefined /\ isHexDigit(LexPeekNext(lx))
    THEN Invoke("scanNumber", << lx >>)
    ELSE LexAdvance(LexPush(lx, makeToken(lx, TOKEN_OPERATOR, "$")))
  ELSE IF char = "\"" \/ char = "'" THEN Invoke("scanString", << lx, char >>)
  ELSE IF isAlpha(char) \/ char = "_" \/ char = "." THEN Invoke("scanIdentifier", << lx >>)
  ELSE IF char \in DOMAIN singleChars
    THEN LexAdvance(LexPush(lx, makeToken(lx, singleChars[char], char)))
  ELSE LexAdvance(LexPush(lx, makeToken(lx, "ERROR", char)))

RECURSIVE tokenizeLoop(_)
tokenizeLoop(lx) == IF LexIsAtEnd(lx) THEN lx ELSE tokenizeLoop(Invoke("scanToken", << lx >>))

tokenize(lx) ==
  LET l == tokenizeLoop(lx) IN LexPush(l, makeToken(l, TOKEN_EOF, "")).tokens

\* The Lexer object after tokenize().
tokenized(lx) ==
  LET l == tokenizeLoop(lx) IN LexPush(l, makeToken(l, TOKEN_EOF, ""))

-----------------------------------------------------------------------------
(* Errors: throw new Error(message).  kind is the constant stem of the     *)
(* message, which is what String.prototype.includes is asked about.        *)

NoExc == [kind |-> "", message |-> ""]

Throw(kind, detail) == [kind |-> kind, message |-> kind \o detail]

\* The symbol table is a JS object used as a map: a function on its keys.
HasSymbol(st, name) == name \in DOMAIN st

SetSymbol(st, name, sym) ==
  [n \in DOMAIN st \cup {name} |-> IF n = name THEN sym ELSE st[n]]

EmptyTable == [n \in {} |-> 0]

-----------------------------------------------------------------------------
(* evaluator.js *)

\* preprocess(tokens): [exc, toks]
RECURSIVE preprocess(_, _, _, _, _)
preprocess(toks, i, symbolTable, currentAddress, acc) ==
  IF i > Len(toks) THEN [exc |-> NoExc, toks |-> acc]
  ELSE LET token == toks[i] IN
    IF token.type = TOKEN_NEWLINE \/ token.type = TOKEN_COMMENT
    THEN Invoke("preprocess", << toks, i + 1, symbolTable, currentAddress, acc >>)
    ELSE IF token.type = TOKEN_OPERATOR /\ token.value = "$"
    THEN Invoke("preprocess", << toks, i + 1, symbolTable, currentAddress,
           Append(acc, [type |-> TOKEN_NUMBER, value |-> currentAddress,
                        line |-> token.line, column |-> token.column]) >>)
    ELSE IF token.type = TOKEN_LABEL
    THEN IF ~HasSymbol(symbolTable, token.value)
         THEN [exc |-> Throw("Undefined symbol",
                         ": " \o token.value \o " at line " \o ToString(token.line)),
               toks |-> acc]
         ELSE Invoke("preprocess", << toks, i + 1, symbolTable, currentAddress,
                Append(acc, [type |-> TOKEN_NUMBER,
                             value |-> symbolTable[token.value].address,
                             line |-> token.line, column |-> token.column]) >>)
    ELSE Invoke("preprocess", << toks, i + 1, symbolTable, currentAddress, Append(acc, token) >>)

\* Division that rounds toward zero, as Math.trunc(a / b) would.
TruncDiv(a, b) ==
  LET absA == IF a < 0 THEN 0 - a ELSE a
      absB == IF b < 0 THEN 0 - b ELSE b
  IN IF (a < 0) = (b < 0) THEN absA \div absB ELSE 0 - (absA \div absB)

\* Math.floor(a / b) for b # 0.
FloorDiv(a, b) == IF b > 0 THEN a \div b ELSE (-a) \div (-b)

\* The parse functions return [exc, value, pos]; start and pos are 0-based.
RECURSIVE parseAdditive(_, _)
RECURSIVE additiveLoop(_, _, _)
RECURSIVE parseMultiplicative(_, _)
RECURSIVE multiplicativeLoop(_, _, _)
RECURSIVE parseUnary(_, _)

\* additiveLoop that takes everything after the operator as the right operand,
\* which groups a - b - c as a - (b - c).
additiveLoopRight(toks, leftValue, pos) ==
  IF pos < Len(toks)
     /\ toks[pos + 1].type = TOKEN_OPERATOR
     /\ (toks[pos + 1].value = "+" \/ toks[pos + 1].value = "-")
  THEN LET op == toks[pos + 1].value
           right == Invoke("parseAdditive", << toks, pos + 1 >>)
       IN IF right.exc # NoExc THEN right
          ELSE [exc |-> NoExc,
                value |-> IF op = "+" THEN leftValue + right.value ELSE leftValue - right.value,
                pos |-> right.pos]
  ELSE [exc |-> NoExc, value |-> leftValue, pos |-> pos]

parseExpression(toks, start) == Invoke("parseAdditive", << toks, start >>)

parseAdditive(toks, start) ==
  LET left == Invoke("parseMultiplicative", << toks, start >>) IN
  IF left.exc # NoExc THEN left ELSE Invoke("additiveLoop", << toks, left.value, left.pos >>)

additiveLoop(toks, leftValue, pos) ==
  IF pos < Len(toks)
     /\ toks[pos + 1].type = TOKEN_OPERATOR
     /\ (toks[pos + 1].value = "+" \/ toks[pos + 1].value = "-")
  THEN LET op == toks[pos + 1].value
           right == Invoke("parseMultiplicative", << toks, pos + 1 >>)
       IN IF right.exc # NoExc THEN right
          ELSE Invoke("additiveLoop", << toks,
                 IF op = "+" THEN leftValue + right.value ELSE leftValue - right.value,
                 right.pos >>)
  ELSE [exc |-> NoExc, value |-> leftValue, pos |-> pos]

parseMultiplicative(toks, start) ==
  LET left == Invoke("parseUnary", << toks, start >>) IN
  IF left.exc # NoExc THEN left ELSE Invoke("multiplicativeLoop", << toks, left.value, left.pos >>)

multiplicativeLoop(toks, leftValue, pos) ==
  IF pos < Len(toks)
     /\ toks[pos + 1].type = TOKEN_OPERATOR
     /\ (toks[pos + 1].value = "*" \/ toks[pos + 1].value = "/")
  THEN LET op == toks[pos + 1].value
           right == Invoke("parseUnary", << toks, pos + 1 >>)
       IN IF right.exc # NoExc THEN right
          ELSE IF op = "*" THEN Invoke("multiplicativeLoop", << toks, leftValue * right.value, right.pos >>)
          ELSE IF right.value = 0
               THEN [exc |-> Throw("Division by zero",
                               " at line " \o ToString(toks[pos + 1].line)),
                     value |-> 0, pos |-> pos]
               ELSE Invoke("multiplicativeLoop", << toks, FloorDiv(leftValue, right.value), right.pos >>)
  ELSE [exc |-> NoExc, value |-> leftValue, pos |-> pos]

parseUnary(toks, start) ==
  IF start >= Len(toks)
  THEN [exc |-> Throw("Unexpected end of expression", ""), value |-> 0, pos |-> start]
  ELSE LET token == toks[start + 1] IN
    IF token.type = TOKEN_OPERATOR /\ token.value = "-"
    THEN LET right == Invoke("parseUnary", << toks, start + 1 >>)
         IN IF right.exc # NoExc THEN right
            ELSE [exc |-> NoExc, value |-> 0 - right.value, pos |-> right.pos]
    ELSE IF token.type = TOKEN_OPERATOR /\ token.value = "+"
    THEN Invoke("parseUnary", << toks, start + 1 >>)
    ELSE IF token.type = TOKEN_LPAREN
    THEN LET expr == Invoke("parseExpression", << toks, start + 1 >>)
         IN IF expr.exc # NoExc THEN expr
            ELSE IF expr.pos >= Len(toks) \/ toks[expr.pos + 1].type # TOKEN_RPAREN
            THEN [exc |-> Throw("Unmatched parenthesis",
                            " at line " \o ToString(token.line)),
                  value |-> 0, pos |-> expr.pos]
            ELSE [exc |-> NoExc, value |-> expr.value, pos |-> expr.pos + 1]
    ELSE IF token.type = TOKEN_NUMBER
    THEN [exc |-> NoExc, value |-> token.value, pos |-> start + 1]
    ELSE [exc |-> Throw("Unexpected token",
                    ": " \o token.type \o " at line " \o ToString(token.line)),
          value |-> 0, pos |-> start]

\* new ExpressionEvaluator(symbolTable, currentAddress).evaluate(tokens): [exc, value]
evaluate(toks, symbolTable, currentAddress) ==
  IF Len(toks) = 0 THEN [exc |-> Throw("Empty expression", ""), value |-> 0]
  ELSE LET processed == Invoke("preprocess", << toks, 1, symbolTable, currentAddress, << >> >>) IN
    IF processed.exc # NoExc THEN [exc |-> processed.exc, value |-> 0]
    ELSE IF Len(processed.toks) = 0
    THEN [exc |-> Throw("Empty expression after preprocessing", ""), value |-> 0]
    ELSE LET r == Invoke("parseExpression", << processed.toks, 0 >>)
         IN [exc |-> r.exc, value |-> r.value]

-----------------------------------------------------------------------------
(* parser.js (src/unnamed/part_008): state and helpers *)

Null == "null"

\* JS truthiness of a value that is a string, null or undefined.
Truthy(v) == v # Null /\ v # Undefined /\ v # ""

UndefTok == [type |-> Undefined, value |-> Undefined, line |-> Undefined, column |-> Undefined]

NotComment(t) == t.type # TOKEN_COMMENT

NewParser(toks) ==
  [ tokens |-> SelectSeq(toks, NotComment),
    pos |-> 0,
    errors |-> << >>,
    warnings |-> << >>,
    symbolTable |-> EmptyTable,
    currentAddress |-> DEFAULT_ORG,
    instructions |-> << >>,
    pass |-> 1 ]

\* this.tokens[i]
TokAt(p, i) == IF i >= 0 /\ i < Len(p.tokens) THEN p.tokens[i + 1] ELSE UndefTok

peek(p) == TokAt(p, p.pos)

advance(p) == [p EXCEPT !.pos = @ + 1]

isAtEnd(p) == p.pos >= Len(p.tokens) \/ peek(p).type = TOKEN_EOF

check(p, type) == peek(p).type = type

checkNext(p, type) == TokAt(p, p.pos + 1).type = type

currentLine(p) ==
  IF p.pos >= 0 /\ p.pos < Len(p.tokens) THEN peek(p).line
  ELSE IF p.pos - 1 >= 0 /\ p.pos - 1 < Len(p.tokens) THEN TokAt(p, p.pos - 1).line
  ELSE 1

defineSymbol(p, name, address, type) ==
  LET w == IF HasSymbol(p.symbolTable, name) /\ type # "DEFL"
           THEN Append(p.warnings,
                  [message |-> "Symbol " \o name \o " redefined", line |-> currentLine(p)])
           ELSE p.warnings
  IN [p EXCEPT !.warnings = w,
               !.symbolTable = SetSymbol(@, name, [address |-> address, type |-> type])]

\* consume(expectedType): [p, exc]
consume(p, expectedType) ==
  IF check(p, expectedType) THEN [p |-> advance(p), exc |-> NoExc]
  ELSE [p |-> p, exc |-> Throw("Expected ", expectedType \o ", got " \o peek(p).type)]

RECURSIVE skipLine(_)
skipLine(p) == IF ~isAtEnd(p) /\ ~check(p, TOKEN_NEWLINE) THEN skipLine(advance(p)) ELSE p

synchronize(p) ==
  LET q == skipLine(p) IN IF check(q, TOKEN_NEWLINE) THEN advance(q) ELSE q

\* A skipToNewline() that leaves the parser where it is.
skipToNewlineStaying(p) == p

skipToNewline(p) ==
  LET q == skipLine(p) IN IF check(q, TOKEN_NEWLINE) THEN advance(q) ELSE q

RECURSIVE skipNewlines(_)
skipNewlines(p) == IF check(p, TOKEN_NEWLINE) THEN skipNewlines(advance(p)) ELSE p

RECURSIVE advanceToEnd(_)
advanceToEnd(p) == IF ~isAtEnd(p) THEN advanceToEnd(advance(p)) ELSE p

\* collectExpressionTokens(): [p, toks]
RECURSIVE collectExpressionTokens(_, _, _)
collectExpressionTokens(p, depth, acc) ==
  IF isAtEnd(p) THEN [p |-> p, toks |-> acc]
  ELSE LET token == peek(p) IN
    IF token.type = TOKEN_NEWLINE THEN [p |-> p, toks |-> acc]
    ELSE IF token.type = TOKEN_COMMA /\ depth = 0 THEN [p |-> p, toks |-> acc]
    ELSE IF token.type = TOKEN_RPAREN /\ depth = 0 THEN [p |-> p, toks |-> acc]
    ELSE collectExpressionTokens(advance(p),
           IF token.type = TOKEN_LPAREN THEN depth + 1
           ELSE IF token.type = TOKEN_RPAREN THEN depth - 1
           ELSE depth,
           Append(acc, token))

\* parseExpressionValue that takes 0 for an undefined symbol whatever the
\* caller allows.
parseExpressionValueLenient(p, allowForwardRefs) ==
  LET c == collectExpressionTokens(p, 0, << >>)
      e == Invoke("evaluate", << c.toks, p.symbolTable, p.currentAddress >>)
  IN IF e.exc = NoExc THEN [p |-> c.p, val |-> e.value, exc |-> NoExc]
     ELSE IF e.exc.kind \in {"Undefined symbol", "Undefined label"}
     THEN [p |-> c.p, val |-> 0, exc |-> NoExc]
     ELSE [p |-> c.p, val |-> 0, exc |-> e.exc]

\* parseExpressionValue(allowForwardRefs): [p, val, exc]
parseExpressionValue(p, allowForwardRefs) ==
  LET c == collectExpressionTokens(p, 0, << >>)
      e == Invoke("evaluate", << c.toks, p.symbolTable, p.currentAddress >>)
  IN IF e.exc = NoExc THEN [p |-> c.p, val |-> e.value, exc |-> NoExc]
     ELSE IF allowForwardRefs /\ e.exc.kind \in {"Undefined symbol", "Undefined label"}
     THEN [p |-> c.p, val |-> 0, exc |-> NoExc]
     ELSE [p |-> c.p, val |-> 0, exc |-> e.exc]

-----------------------------------------------------------------------------
(* parser.js: pass 1 *)

\* The operand scan of calculateInstructionSize: one iteration per call.
\* s = [p, operandCount, hasImmediate, has16Bit, hasRegister, hasIndirect, exc]
RECURSIVE sizeScan(_, _)
sizeScan(s, mnem) ==
  LET p == s.p IN
  IF check(p, TOKEN_NEWLINE) \/ isAtEnd(p) THEN s
  ELSE IF check(p, TOKEN_NUMBER) \/ check(p, TOKEN_OPERATOR) THEN
    LET r == Invoke("parseExpressionValue", << p, TRUE >>) IN
    IF r.exc = NoExc
    THEN Invoke("sizeScan", << [s EXCEPT !.p = r.p, !.hasImmediate = TRUE,
                            !.has16Bit = @ \/ r.val > 255 \/ r.val < 0,
                            !.operandCount = @ + 1], mnem >>)
    ELSE IF check(p, TOKEN_NUMBER)
    THEN Invoke("sizeScan", << [s EXCEPT !.p = advance(p), !.hasImmediate = TRUE,
                            !.operandCount = @ + 1], mnem >>)
    ELSE s
  ELSE IF check(p, TOKEN_LABEL) THEN
    IF peek(p).value \in DOMAIN CONDITIONS
    THEN Invoke("sizeScan", << [s EXCEPT !.p = advance(p), !.operandCount = @ + 1], mnem >>)
    ELSE Invoke("sizeScan", << [s EXCEPT !.p = advance(p), !.operandCount = @ + 1,
                            !.has16Bit = @ \/ mnem \in {"LD", "JP", "CALL"}], mnem >>)
  ELSE IF check(p, TOKEN_REGISTER) THEN
    Invoke("sizeScan", << [s EXCEPT !.p = advance(p), !.hasRegister = TRUE, !.operandCount = @ + 1], mnem >>)
  ELSE IF check(p, TOKEN_COMMA) THEN
    Invoke("sizeScan", << [s EXCEPT !.p = advance(p)], mnem >>)
  ELSE IF check(p, TOKEN_LPAREN) THEN
    LET p1 == advance(p) IN
    IF check(p1, TOKEN_REGISTER)
    THEN LET c == consume(advance(p1), TOKEN_RPAREN) IN
         IF c.exc # NoExc THEN [s EXCEPT !.p = c.p, !.exc = c.exc]
         ELSE Invoke("sizeScan", << [s EXCEPT !.p = c.p, !.hasIndirect = TRUE,
                                 !.operandCount = @ + 1], mnem >>)
    ELSE LET r == Invoke("parseExpressionValue", << p1, TRUE >>)
             c == consume(r.p, TOKEN_RPAREN)
         IN IF c.exc # NoExc
            THEN [s EXCEPT !.p = c.p, !.has16Bit = TRUE, !.hasIndirect = TRUE, !.exc = c.exc]
            ELSE Invoke("sizeScan", << [s EXCEPT !.p = c.p, !.has16Bit = TRUE, !.hasIndirect = TRUE,
                                    !.operandCount = @ + 1], mnem >>)
  ELSE s

\* calculateInstructionSize(): [p, val, exc]
calculateInstructionSize(p) ==
  LET startPos == p.pos
      mnemonic == peek(p)
      back(q) == [q EXCEPT !.pos = startPos]
  IN
  IF mnemonic.type # TOKEN_MNEMONIC THEN [p |-> p, val |-> 0, exc |-> NoExc]
  ELSE LET mnem == mnemonic.value IN
    IF mnem \in {"NOP", "HALT", "DI", "EI", "SCF", "CCF", "CPL", "DAA", "RLCA", "RRCA",
                 "RLA", "RRA", "RET", "EXX", "EX DE,HL", "EX AF,AF'"}
    THEN [p |-> p, val |-> 1, exc |-> NoExc]
    ELSE IF mnem \in {"LDIR", "LDDR", "LDI", "LDD", "RETI", "RETN", "NEG"}
    THEN [p |-> p, val |-> 2, exc |-> NoExc]
    ELSE IF mnem \in {"JP", "CALL"} THEN [p |-> p, val |-> 3, exc |-> NoExc]
    ELSE IF mnem \in {"JR", "DJNZ"} THEN [p |-> p, val |-> 2, exc |-> NoExc]
    ELSE
      LET s == Invoke("sizeScan", << [p |-> advance(p), operandCount |-> 0, hasImmediate |-> FALSE,
                         has16Bit |-> FALSE, hasRegister |-> FALSE,
                         hasIndirect |-> FALSE, exc |-> NoExc], mnem >>)
          size ==
            IF mnem = "LD" THEN
              IF s.operandCount = 2 THEN
                IF s.has16Bit THEN 3
                ELSE IF s.hasImmediate /\ s.hasRegister THEN 2
                ELSE IF s.hasRegister /\ s.hasIndirect THEN 1
                ELSE IF s.hasRegister /\ ~s.hasImmediate THEN 1
                ELSE IF s.hasImmediate /\ s.hasIndirect THEN 2
                ELSE 2
              ELSE 2
            ELSE IF mnem \in {"ADD", "ADC", "SUB", "SBC", "AND", "OR", "XOR", "CP"} THEN
              IF s.hasImmediate THEN 2 ELSE 1
            ELSE IF mnem \in {"INC", "DEC"} THEN 1
            ELSE IF mnem \in {"PUSH", "POP"} THEN 1
            ELSE IF mnem = "RET" /\ s.operandCount > 0 THEN 1
            ELSE IF mnem = "RST" THEN 1
            ELSE IF mnem \in {"BIT", "SET", "RES", "RLC", "RRC", "RL", "RR",
                              "SLA", "SRA", "SLL", "SRL"} THEN 2
            ELSE IF mnem \in {"IN", "OUT"} THEN 2
            ELSE IF s.has16Bit THEN 3
            ELSE IF s.hasImmediate THEN 2
            ELSE 1
      IN IF s.exc # NoExc THEN [p |-> s.p, val |-> 0, exc |-> s.exc]
         ELSE [p |-> back(s.p), val |-> size, exc |-> NoExc]

\* The counting loop of parseDBPass1: [p, count]
RECURSIVE countDB(_, _)
countDB(p, count) ==
  IF check(p, TOKEN_NEWLINE) \/ isAtEnd(p) THEN [p |-> p, count |-> count]
  ELSE IF check(p, TOKEN_STRING) THEN countDB(advance(p), count + Len(peek(p).value))
  ELSE IF check(p, TOKEN_NUMBER) THEN countDB(advance(p), count + 1)
  ELSE IF check(p, TOKEN_COMMA) THEN countDB(advance(p), count)
  ELSE [p |-> p, count |-> count]

parseDBPass1(p) ==
  LET startPos == p.pos
      c == countDB(p, 0)
  IN [c.p EXCEPT !.currentAddress = @ + c.count, !.pos = startPos]

RECURSIVE countDW(_, _)
countDW(p, count) ==
  IF check(p, TOKEN_NEWLINE) \/ isAtEnd(p) THEN [p |-> p, count |-> count]
  ELSE IF check(p, TOKEN_NUMBER) \/ check(p, TOKEN_LABEL) THEN countDW(advance(p), count + 1)
  ELSE IF check(p, TOKEN_COMMA) THEN countDW(advance(p), count)
  ELSE [p |-> p, count |-> count]

parseDWPass1(p) ==
  LET startPos == p.pos
      c == countDW(p, 0)
  IN [c.p EXCEPT !.currentAddress = @ + c.count * 2, !.pos = startPos]

\* The label an EQU/DEFL handler finds two tokens back, or null.
lookBackLabel(p) ==
  IF p.pos > 1 /\ TokAt(p, p.pos - 2).type = TOKEN_LABEL
  THEN TokAt(p, p.pos - 2).value
  ELSE Null

\* parseDirectivePass1(): [p, exc]
parseDirectivePass1(p0) ==
  LET directive == peek(p0)
      p == advance(p0)
      done(q) == [p |-> skipToNewline(q), exc |-> NoExc]
  IN
  IF directive.value \in {".ORG", "ORG"} THEN
    LET r == Invoke("parseExpressionValue", << p, TRUE >>) IN
    IF r.exc # NoExc THEN [p |-> r.p, exc |-> r.exc]
    ELSE done([r.p EXCEPT !.currentAddress = r.val])
  ELSE IF directive.value \in {".EQU", "EQU"} THEN
    LET equLabel == lookBackLabel(p) IN
    IF Truthy(equLabel) THEN
      LET r == Invoke("parseExpressionValue", << p, FALSE >>) IN
      IF r.exc # NoExc THEN [p |-> r.p, exc |-> r.exc]
      ELSE done(defineSymbol(r.p, equLabel, r.val, "EQU"))
    ELSE done(p)
  ELSE IF directive.value \in {".DEFL", "DEFL"} THEN
    LET deflLabel == lookBackLabel(p) IN
    IF Truthy(deflLabel) THEN
      LET r == Invoke("parseExpressionValue", << p, FALSE >>) IN
      IF r.exc # NoExc THEN [p |-> r.p, exc |-> r.exc]
      ELSE done(defineSymbol(r.p, deflLabel, r.val, "DEFL"))
    ELSE done(p)
  ELSE IF directive.value \in {".DB", "DB", "DEFB"} THEN done(Invoke("parseDBPass1", << p >>))
  ELSE IF directive.value \in {".DW", "DW", "DEFW"} THEN done(Invoke("parseDWPass1", << p >>))
  ELSE IF directive.value \in {".DS", "DS", "DEFS"} THEN
    LET r == Invoke("parseExpressionValue", << p, TRUE >>) IN
    IF r.exc # NoExc THEN [p |-> r.p, exc |-> r.exc]
    ELSE done([r.p EXCEPT !.currentAddress = @ + r.val])
  ELSE IF directive.value \in {".END", "END"} THEN done(advanceToEnd(p))
  ELSE done(p)

\* parseLinePass1(): [p, exc]
parseLinePass1(p0) ==
  LET p1 == skipNewlines(p0) IN
  IF isAtEnd(p1) THEN [p |-> p1, exc |-> NoExc]
  ELSE
    LET p2 == IF check(p1, TOKEN_LABEL) /\ checkNext(p1, TOKEN_COLON)
              THEN defineSymbol(advance(advance(p1)), peek(p1).value, p1.currentAddress, "LABEL")
              ELSE p1
        nextToken == TokAt(p2, p2.pos + 1)
        p3 == IF check(p2, TOKEN_LABEL) /\ ~checkNext(p2, TOKEN_COLON)
                 /\ nextToken.type = TOKEN_DIRECTIVE
              THEN IF nextToken.value \notin {".EQU", "EQU", ".DEFL", "DEFL"}
                   THEN defineSymbol(advance(p2), peek(p2).value, p2.currentAddress, "LABEL")
                   ELSE advance(p2)
              ELSE p2
    IN
    IF check(p3, TOKEN_DIRECTIVE) THEN Invoke("parseDirectivePass1", << p3 >>)
    ELSE IF check(p3, TOKEN_MNEMONIC) THEN
      LET r == Invoke("calculateInstructionSize", << p3 >>) IN
      IF r.exc # NoExc THEN [p |-> r.p, exc |-> r.exc]
      ELSE [p |-> skipToNewline([r.p EXCEPT !.currentAddress = @ + r.val]), exc |-> NoExc]
    ELSE [p |-> skipToNewline(p3), exc |-> NoExc]

\* The catch clause of parse()'s loops.
catchParseError(p, exc) ==
  synchronize([p EXCEPT !.errors = Append(@, [message |-> exc.message, line |-> currentLine(p)])])

\* Pass 1 of parse(): lines 23-35.
RECURSIVE pass1Loop(_)
pass1Loop(p) ==
  IF isAtEnd(p) THEN p
  ELSE LET r == Invoke("parseLinePass1", << p >>)
       IN pass1Loop(IF r.exc # NoExc THEN catchParseError(r.p, r.exc) ELSE r.p)

parsePass1(p) ==
  pass1Loop([p EXCEPT !.pass = 1, !.pos = 0, !.currentAddress = DEFAULT_ORG,
                      !.symbolTable = EmptyTable])

-----------------------------------------------------------------------------
(* parser.js: pass 2.  An operand is [k |-> "num", v |-> n], [k |-> "str",
   v |-> s] or, for { type: 'LABEL_REF', name }, [k |-> "ref", v |-> name].
   Every emitted record carries one auxiliary field, stmt: the index of the
   mnemonic or directive token of the statement that emitted it.  The code
   has no such field and no definition reads it except the properties. *)

NumOp(n) == [k |-> "num", v |-> n]

StrOp(s) == [k |-> "str", v |-> s]

RefOp(name) == [k |-> "ref", v |-> name]

\* The first index at or after i whose token is not a NEWLINE or COMMENT.
RECURSIVE skipBlank(_, _)
skipBlank(p, i) ==
  IF i < Len(p.tokens) /\ TokAt(p, i).type \in {TOKEN_NEWLINE, TOKEN_COMMENT}
  THEN skipBlank(p, i + 1)
  ELSE i

\* parseOperand(): [p, val, exc]
parseOperand(p0) ==
  IF check(p0, TOKEN_LPAREN) THEN
    LET p == advance(p0) IN
    IF check(p, TOKEN_REGISTER) THEN
      LET reg == peek(p)
          c == consume(advance(p), TOKEN_RPAREN)
      IN IF c.exc # NoExc THEN [p |-> c.p, val |-> NumOp(0), exc |-> c.exc]
         ELSE IF reg.value \in {"HL", "BC", "DE"}
         THEN [p |-> c.p, val |-> StrOp("(" \o reg.value \o ")"), exc |-> NoExc]
         ELSE [p |-> c.p, val |-> NumOp(0),
               exc |-> Throw("Invalid register in parentheses", ": " \o reg.value)]
    ELSE
      LET checkPos == skipBlank(p, p.pos)
          nextCheck == skipBlank(p, checkPos + 1)
      IN
      IF /\ p.pass = 2
         /\ checkPos < Len(p.tokens) /\ TokAt(p, checkPos).type = TOKEN_LABEL
         /\ nextCheck < Len(p.tokens) /\ TokAt(p, nextCheck).type = TOKEN_RPAREN
      THEN [p |-> [p EXCEPT !.pos = nextCheck + 1],
            val |-> RefOp(TokAt(p, checkPos).value), exc |-> NoExc]
      ELSE
        LET r == Invoke("parseExpressionValue", << p, TRUE >>) IN
        IF r.exc # NoExc THEN [p |-> r.p, val |-> NumOp(0), exc |-> r.exc]
        ELSE LET c == consume(r.p, TOKEN_RPAREN)
             IN [p |-> c.p, val |-> NumOp(r.val), exc |-> c.exc]
  ELSE
    LET nextType == TokAt(p0, p0.pos + 1).type
        expr == LET r == Invoke("parseExpressionValue", << p0, TRUE >>)
                IN [p |-> r.p, val |-> NumOp(r.val), exc |-> r.exc]
    IN
    IF check(p0, TOKEN_OPERATOR) /\ peek(p0).value = "$" THEN expr
    ELSE IF check(p0, TOKEN_NUMBER) THEN expr
    ELSE IF check(p0, TOKEN_REGISTER)
    THEN [p |-> advance(p0), val |-> StrOp(peek(p0).value), exc |-> NoExc]
    ELSE IF check(p0, TOKEN_LABEL) THEN
      LET labelToken == peek(p0) IN
      IF labelToken.value \in DOMAIN CONDITIONS
      THEN [p |-> advance(p0), val |-> StrOp(labelToken.value), exc |-> NoExc]
      ELSE IF nextType = TOKEN_OPERATOR \/ nextType = TOKEN_LPAREN THEN expr
      ELSE IF p0.pass = 2
      THEN [p |-> advance(p0), val |-> RefOp(labelToken.value), exc |-> NoExc]
      ELSE IF ~HasSymbol(p0.symbolTable, labelToken.value)
      THEN [p |-> advance(p0), val |-> NumOp(0), exc |-> NoExc]
      ELSE [p |-> advance(p0), val |-> NumOp(p0.symbolTable[labelToken.value].address),
            exc |-> NoExc]
    ELSE [p |-> p0, val |-> NumOp(0),
          exc |-> Throw("Unexpected operand token", ": " \o peek(p0).type)]

\* The comma loop of parseOperands: [p, val, exc]
RECURSIVE moreOperands(_, _)
moreOperands(p, operands) ==
  IF check(p, TOKEN_COMMA)
  THEN LET r == Invoke("parseOperand", << advance(p) >>) IN
       IF r.exc # NoExc THEN [p |-> r.p, val |-> operands, exc |-> r.exc]
       ELSE Invoke("moreOperands", << r.p, Append(operands, r.val) >>)
  ELSE [p |-> p, val |-> operands, exc |-> NoExc]

\* parseOperands(): [p, val, exc]
parseOperands(p) ==
  IF check(p, TOKEN_NEWLINE) \/ isAtEnd(p) THEN [p |-> p, val |-> << >>, exc |-> NoExc]
  ELSE LET r == Invoke("parseOperand", << p >>) IN
       IF r.exc # NoExc THEN [p |-> r.p, val |-> << >>, exc |-> r.exc]
       ELSE Invoke("moreOperands", << r.p, << r.val >> >>)

estimateInstructionSize(mnemonic, operands) ==
  LET op1 == operands[1]
      op2 == operands[2]
  IN
  IF mnemonic \in {"NOP", "HALT", "DI", "EI", "SCF", "CCF", "CPL", "DAA", "RLCA", "RRCA",
                   "RLA", "RRA", "RET", "EXX"} THEN 1
  ELSE IF mnemonic \in {"LDIR", "LDDR", "LDI", "LDD", "RETI", "RETN", "NEG"} THEN 2
  ELSE IF mnemonic \in {"JP", "CALL"} THEN 3
  ELSE IF mnemonic \in {"JR", "DJNZ"} THEN 2
  ELSE IF mnemonic = "LD" /\ Len(operands) = 2 THEN
    IF op1.k = "num" /\ op1.v > 255 THEN 3
    ELSE IF op2.k = "num" /\ op2.v > 255 THEN 3
    ELSE IF op2.k = "num" /\ op2.v <= 255 /\ op1.k = "str" /\ op1.v \in DOMAIN REG8 THEN 2
    ELSE IF (op1.k = "str" /\ op1.v = "(HL)") \/ (op2.k = "str" /\ op2.v = "(HL)") THEN 1
    ELSE IF /\ op1.k = "str" /\ op1.v \in DOMAIN REG8 /\ REG8[op1.v] # 0
            /\ op2.k = "str" /\ op2.v \in DOMAIN REG8 /\ REG8[op2.v] # 0 THEN 1
    ELSE 2
  ELSE IF mnemonic \in {"ADD", "ADC", "SUB", "SBC", "AND", "OR", "XOR", "CP"} THEN
    IF Len(operands) = 1 /\ operands[1].k = "num" THEN 2 ELSE 1
  ELSE IF mnemonic \in {"INC", "DEC", "PUSH", "POP"} THEN 1
  ELSE IF mnemonic \in {"BIT", "SET", "RES", "RLC", "RRC", "RL", "RR",
                        "SLA", "SRA", "SLL", "SRL"} THEN 2
  ELSE IF mnemonic \in {"IN", "OUT"} THEN 2
  ELSE 1

\* parseInstruction(): [p, exc]
parseInstruction(p0) ==
  LET mnemonic == peek(p0)
      r == Invoke("parseOperands", << advance(p0) >>)
      p == r.p
      labelName ==
        IF p.pos > 1 /\ TokAt(p, p.pos - 2).type = TOKEN_COLON
                     /\ TokAt(p, p.pos - 3).type = TOKEN_LABEL
        THEN TokAt(p, p.pos - 3).value
        ELSE Null
      inst == [type |-> "INSTRUCTION", mnemonic |-> mnemonic.value, operands |-> r.val,
               address |-> p.currentAddress, bytes |-> << >>, label |-> labelName,
               stmt |-> p0.pos]
  IN IF r.exc # NoExc THEN [p |-> p, exc |-> r.exc]
     ELSE [p |-> [p EXCEPT !.instructions = Append(@, inst),
                           !.currentAddress = @ + Invoke("estimateInstructionSize", << mnemonic.value, r.val >>)],
           exc |-> NoExc]

DataRecord(bytes, address, label, stmt) ==
  [type |-> "DATA", bytes |-> bytes, address |-> address, label |-> label, stmt |-> stmt]

\* The per-character loop of parseDBPass2 over one STRING token.
RECURSIVE pushString(_, _, _, _, _)
pushString(p, chars, i, label, stmt) ==
  IF i > Len(chars) THEN p
  ELSE pushString(
         [p EXCEPT !.instructions =
                     Append(@, DataRecord(<< BitAnd(CharCode(chars[i]), 255) >>,
                                          p.currentAddress,
                                          IF i = 1 THEN label ELSE Null, stmt)),
                   !.currentAddress = @ + 1],
         chars, i + 1, label, stmt)

\* The data loop of parseDBPass2: [p, exc]
RECURSIVE dbLoop(_, _, _, _)
dbLoop(p, firstData, labelName, stmt) ==
  IF check(p, TOKEN_NEWLINE) \/ isAtEnd(p) THEN [p |-> p, exc |-> NoExc]
  ELSE IF check(p, TOKEN_STRING) THEN
    LET str == peek(p)
        q == pushString(advance(p), str.value, 1, IF firstData THEN labelName ELSE Null, stmt)
    IN Invoke("dbLoop", << q, firstData /\ Len(str.value) = 0, labelName, stmt >>)
  ELSE IF check(p, TOKEN_NUMBER) \/ check(p, TOKEN_LABEL) THEN
    LET r == Invoke("parseExpressionValue", << p, TRUE >>) IN
    IF r.exc # NoExc THEN [p |-> r.p, exc |-> r.exc]
    ELSE Invoke("dbLoop", << [r.p EXCEPT !.instructions =
                              Append(@, DataRecord(<< BitAnd(r.val, 255) >>, p.currentAddress,
                                                   IF firstData THEN labelName ELSE Null, stmt)),
                            !.currentAddress = @ + 1],
                FALSE, labelName, stmt >>)
  ELSE IF check(p, TOKEN_COMMA) THEN Invoke("dbLoop", << advance(p), firstData, labelName, stmt >>)
  ELSE [p |-> p, exc |-> NoExc]

\* parseDBPass2(): [p, exc]
parseDBPass2(p) ==
  LET tok1 == TokAt(p, p.pos - 1)
      tok2 == TokAt(p, p.pos - 2)
      tok3 == TokAt(p, p.pos - 3)
      back3 == IF p.pos > 2 /\ tok3.type = TOKEN_LABEL /\ tok2.type = TOKEN_COLON
                  /\ tok1.type = TOKEN_DIRECTIVE
               THEN tok3.value ELSE Null
      back2 == IF ~Truthy(back3) /\ p.pos > 1 /\ tok2.type = TOKEN_LABEL
                  /\ tok1.type = TOKEN_DIRECTIVE
               THEN tok2.value ELSE back3
      nextToken == TokAt(p, p.pos + 1)
      ahead == ~Truthy(back2) /\ check(p, TOKEN_LABEL)
               /\ nextToken.type \in {TOKEN_COLON, TOKEN_NUMBER, TOKEN_STRING}
      labelName == IF ahead THEN peek(p).value ELSE back2
      q == IF ahead
           THEN IF nextToken.type = TOKEN_COLON THEN advance(advance(p)) ELSE advance(p)
           ELSE p
  IN Invoke("dbLoop", << q, TRUE, labelName, p.pos - 1 >>)

\* parseDWPass2(): [p, exc]
RECURSIVE dwLoop(_, _)
dwLoop(p, stmt) ==
  IF check(p, TOKEN_NEWLINE) \/ isAtEnd(p) THEN [p |-> p, exc |-> NoExc]
  ELSE IF check(p, TOKEN_NUMBER) \/ check(p, TOKEN_LABEL) THEN
    LET r == Invoke("parseExpressionValue", << p, TRUE >>) IN
    IF r.exc # NoExc THEN [p |-> r.p, exc |-> r.exc]
    ELSE Invoke("dwLoop", << [r.p EXCEPT !.instructions =
                              Append(@, DataRecord(<< BitAnd(r.val, 255), ShrByte(r.val, 8) >>,
                                                   p.currentAddress, Undefined, stmt)),
                            !.currentAddress = @ + 2],
                stmt >>)
  ELSE IF check(p, TOKEN_COMMA) THEN Invoke("dwLoop", << advance(p), stmt >>)
  ELSE [p |-> p, exc |-> NoExc]

parseDWPass2(p) == Invoke("dwLoop", << p, p.pos - 1 >>)

\* The reservation loop of the .DS case of parseDirectivePass2: iteration i
\* pushes a zero byte at the address the counter has reached.
reserve(p, count, stmt) ==
  IF count > 0
  THEN [p EXCEPT !.instructions =
                   @ \o [i \in 1..count |->
                           DataRecord(<< 0 >>, p.currentAddress + (i - 1), Undefined, stmt)],
                 !.currentAddress = @ + count]
  ELSE p

\* parseDirectivePass2(): [p, exc]
parseDirectivePass2(p0) ==
  LET directive == peek(p0)
      p == advance(p0)
      done(q) == [p |-> skipToNewline(q), exc |-> NoExc]
  IN
  IF directive.value \in {".ORG", "ORG"} THEN
    LET r == Invoke("parseExpressionValue", << p, TRUE >>) IN
    IF r.exc # NoExc THEN [p |-> r.p, exc |-> r.exc]
    ELSE done([r.p EXCEPT !.currentAddress = r.val])
  ELSE IF directive.value \in {".EQU", "EQU", ".DEFL", "DEFL"} THEN
    LET p1 == IF check(p, TOKEN_LABEL) THEN advance(p) ELSE p
        p2 == IF check(p1, TOKEN_COMMA) THEN advance(p1) ELSE p1
        r == Invoke("parseExpressionValue", << p2, TRUE >>)
    IN IF r.exc # NoExc THEN [p |-> r.p, exc |-> r.exc] ELSE done(r.p)
  ELSE IF directive.value \in {".DB", "DB", "DEFB"} THEN
    LET r == Invoke("parseDBPass2", << p >>) IN
    IF r.exc # NoExc THEN r ELSE done(r.p)
  ELSE IF directive.value \in {".DW", "DW", "DEFW"} THEN
    LET r == Invoke("parseDWPass2", << p >>) IN
    IF r.exc # NoExc THEN r ELSE done(r.p)
  ELSE IF directive.value \in {".DS", "DS", "DEFS"} THEN
    LET r == Invoke("parseExpressionValue", << p, TRUE >>) IN
    IF r.exc # NoExc THEN [p |-> r.p, exc |-> r.exc]
    ELSE done(reserve(r.p, r.val, p0.pos))
  ELSE IF directive.value \in {".END", "END"} THEN done(advanceToEnd(p))
  ELSE done(p)

\* parseLinePass2(): [p, exc]
parseLinePass2(p0) ==
  LET p1 == skipNewlines(p0) IN
  IF isAtEnd(p1) THEN [p |-> p1, exc |-> NoExc]
  ELSE
    LET p2 == IF check(p1, TOKEN_LABEL) /\ checkNext(p1, TOKEN_COLON)
              THEN advance(advance(p1))
              ELSE p1
        p3 == IF check(p2, TOKEN_LABEL) /\ ~checkNext(p2, TOKEN_COLON)
                 /\ TokAt(p2, p2.pos + 1).type = TOKEN_DIRECTIVE
              THEN advance(p2)
              ELSE p2
    IN
    IF check(p3, TOKEN_DIRECTIVE) THEN Invoke("parseDirectivePass2", << p3 >>)
    ELSE IF check(p3, TOKEN_MNEMONIC) THEN Invoke("parseInstruction", << p3 >>)
    ELSE [p |-> skipToNewline(p3), exc |-> NoExc]

\* Pass 2 of parse(): lines 37-50.
RECURSIVE pass2Loop(_)
pass2Loop(p) ==
  IF isAtEnd(p) THEN p
  ELSE LET r == Invoke("parseLinePass2", << p >>)
       IN pass2Loop(IF r.exc # NoExc THEN catchParseError(r.p, r.exc) ELSE r.p)

parsePass2(p) ==
  pass2Loop([p EXCEPT !.pass = 2, !.pos = 0, !.currentAddress = DEFAULT_ORG,
                      !.instructions = << >>])

\* What parse() returns.
parseResult(p) ==
  [ instructions |-> p.instructions,
    symbolTable |-> p.symbolTable,
    errors |-> p.errors,
    warnings |-> p.warnings,
    startAddress |-> DEFAULT_ORG ]

-----------------------------------------------------------------------------
(* opcodes.js (src/unnamed/part_001).  An encoder returns [bytes, exc]; the
   size and cycles fields of an encoding are never read and are left out.
   A missing operand is UndefOp. *)

UndefOp == [k |-> "undef", v |-> Undefined]

Op(operands, i) == IF i <= Len(operands) THEN operands[i] ELSE UndefOp

IsNum(op) == op.k = "num"

IsStr(op, s) == op.k = "str" /\ op.v = s

\* M[op] !== undefined for a table M keyed by strings.
Has(M, op) == op.k = "str" /\ op.v \in DOMAIN M

\* `${op}`
OpStr(op) == IF op.k = "num" THEN ToString(op.v) ELSE op.v

\* operands.join(', ')
RECURSIVE JoinOps(_)
JoinOps(operands) ==
  IF Len(operands) = 0 THEN ""
  ELSE IF Len(operands) = 1 THEN (IF operands[1].k = "undef" THEN "" ELSE OpStr(operands[1]))
  ELSE (IF operands[1].k = "undef" THEN "" ELSE OpStr(operands[1]))
       \o ", " \o JoinOps(Tail(operands))

Enc(bytes) == [bytes |-> bytes, exc |-> NoExc]

EncErr(kind, detail) == [bytes |-> << >>, exc |-> Throw(kind, detail)]

Lo(v) == BitAnd(v, 255)

Hi(v) == ShrByte(v, 8)

SIMPLE_INSTRUCTIONS ==
  [m \in {"NOP", "HALT", "DI", "EI", "EXX", "SCF", "CCF", "CPL", "DAA", "RLCA", "RRCA",
          "RLA", "RRA", "RET", "RETI", "RETN", "NEG", "EX DE,HL", "EX AF,AF'",
          "EX (SP),HL", "LDI", "LDIR", "LDD", "LDDR"} |->
     CASE m = "NOP" -> << 0 >> [] m = "HALT" -> << 118 >> [] m = "DI" -> << 243 >>
       [] m = "EI" -> << 251 >> [] m = "EXX" -> << 217 >> [] m = "SCF" -> << 55 >>
       [] m = "CCF" -> << 63 >> [] m = "CPL" -> << 47 >> [] m = "DAA" -> << 39 >>
       [] m = "RLCA" -> << 7 >> [] m = "RRCA" -> << 15 >> [] m = "RLA" -> << 23 >>
       [] m = "RRA" -> << 31 >> [] m = "RET" -> << 201 >>
       [] m = "RETI" -> << 237, 77 >> [] m = "RETN" -> << 237, 69 >>
       [] m = "NEG" -> << 237, 68 >> [] m = "EX DE,HL" -> << 235 >>
       [] m = "EX AF,AF'" -> << 8 >> [] m = "EX (SP),HL" -> << 227 >>
       [] m = "LDI" -> << 237, 160 >> [] m = "LDIR" -> << 237, 176 >>
       [] m = "LDD" -> << 237, 168 >> [] m = "LDDR" -> << 237, 184 >>]

encodeLD(operands) ==
  LET dest == Op(operands, 1)
      src == Op(operands, 2)
  IN
  IF Has(REG8, dest) /\ Has(REG8, src)
  THEN Enc(<< BitOr(BitOr(64, REG8[dest.v] * 8), REG8[src.v]) >>)
  ELSE IF Has(REG8, dest) /\ IsNum(src)
  THEN Enc(<< BitOr(6, REG8[dest.v] * 8), Lo(src.v) >>)
  ELSE IF Has(REG8, dest) /\ IsStr(src, "(HL)")
  THEN Enc(<< BitOr(70, REG8[dest.v] * 8) >>)
  ELSE IF IsStr(dest, "(HL)") /\ Has(REG8, src)
  THEN Enc(<< BitOr(112, REG8[src.v]) >>)
  ELSE IF IsStr(dest, "(HL)") /\ IsNum(src)
  THEN Enc(<< 54, Lo(src.v) >>)
  ELSE IF IsStr(dest, "A") /\ IsStr(src, "(BC)") THEN Enc(<< 10 >>)
  ELSE IF IsStr(dest, "A") /\ IsStr(src, "(DE)") THEN Enc(<< 26 >>)
  ELSE IF IsStr(dest, "A") /\ IsNum(src) /\ src.v > 255
  THEN Enc(<< 58, Lo(src.v), Hi(src.v) >>)
  ELSE IF IsStr(dest, "A") /\ IsNum(src) /\ src.v <= 255
  THEN Enc(<< 62, Lo(src.v) >>)
  ELSE IF IsStr(dest, "(BC)") /\ IsStr(src, "A") THEN Enc(<< 2 >>)
  ELSE IF IsStr(dest, "(DE)") /\ IsStr(src, "A") THEN Enc(<< 18 >>)
  ELSE IF IsNum(dest) /\ IsStr(src, "A")
  THEN Enc(<< 50, Lo(dest.v), Hi(dest.v) >>)
  ELSE IF Has(REG16, dest) /\ IsNum(src)
  THEN Enc(<< BitOr(1, REG16[dest.v] * 16), Lo(src.v), Hi(src.v) >>)
  ELSE IF IsStr(dest, "SP") /\ IsStr(src, "HL") THEN Enc(<< 249 >>)
  ELSE IF IsNum(dest) /\ IsStr(src, "HL")
  THEN Enc(<< 34, Lo(dest.v), Hi(dest.v) >>)
  ELSE IF IsStr(dest, "HL") /\ IsNum(src)
  THEN Enc(<< 42, Lo(src.v), Hi(src.v) >>)
  ELSE EncErr("Unsupported LD pattern", ": " \o OpStr(dest) \o ", " \o OpStr(src))

encodeJP(operands) ==
  LET target == Op(operands, 1)
      cc == Op(operands, 1)
      target2 == Op(operands, 2)
  IN
  IF Len(operands) = 1 /\ IsStr(target, "(HL)") THEN Enc(<< 233 >>)
  ELSE IF Len(operands) = 1 /\ IsNum(target)
  THEN Enc(<< 195, Lo(target.v), Hi(target.v) >>)
  ELSE IF Len(operands) = 2 /\ Has(CONDITIONS, cc) /\ IsNum(target2)
  THEN Enc(<< BitOr(194, CONDITIONS[cc.v] * 8), Lo(target2.v), Hi(target2.v) >>)
  ELSE EncErr("Unsupported JP pattern", ": " \o JoinOps(operands))

\* offset < 0 ? (0x100 + offset) : offset
relOffset(offset) == IF offset < 0 THEN 256 + offset ELSE offset

JR_OPCODES ==
  [c \in {"NZ", "Z", "NC", "C"} |->
     CASE c = "NZ" -> 32 [] c = "Z" -> 40 [] c = "NC" -> 48 [] c = "C" -> 56]

encodeJR(operands) ==
  LET offset == Op(operands, 1)
      cc == Op(operands, 1)
      offset2 == Op(operands, 2)
  IN
  IF Len(operands) = 1 /\ IsNum(offset)
  THEN Enc(<< 24, Lo(relOffset(offset.v)) >>)
  ELSE IF Len(operands) = 2 /\ IsNum(offset2) /\ Has(JR_OPCODES, cc)
  THEN Enc(<< JR_OPCODES[cc.v], Lo(relOffset(offset2.v)) >>)
  ELSE EncErr("Unsupported JR pattern", ": " \o JoinOps(operands))

encodeDJNZ(offset) ==
  IF IsNum(offset) THEN Enc(<< 16, Lo(relOffset(offset.v)) >>)
  ELSE EncErr("Invalid DJNZ offset", ": " \o OpStr(offset))

ALU_OPCODES ==
  [m \in {"ADD", "ADC", "SUB", "SBC", "AND", "XOR", "OR", "CP"} |->
     CASE m = "ADD" -> 128 [] m = "ADC" -> 136 [] m = "SUB" -> 144 [] m = "SBC" -> 152
       [] m = "AND" -> 160 [] m = "XOR" -> 168 [] m = "OR" -> 176 [] m = "CP" -> 184]

ALU_IMM_OPCODES ==
  [m \in {"ADD", "ADC", "SUB", "SBC", "AND", "XOR", "OR", "CP"} |->
     CASE m = "ADD" -> 198 [] m = "ADC" -> 206 [] m = "SUB" -> 214 [] m = "SBC" -> 222
       [] m = "AND" -> 230 [] m = "XOR" -> 238 [] m = "OR" -> 246 [] m = "CP" -> 254]

RECURSIVE encodeALU(_, _)
encodeALU(mnemonic, operands) ==
  LET op == Op(operands, 1) IN
  IF Len(operands) = 1 /\ Has(REG8, op)
  THEN Enc(<< BitOr(ALU_OPCODES[mnemonic], REG8[op.v]) >>)
  ELSE IF Len(operands) = 1 /\ IsStr(op, "(HL)")
  THEN Enc(<< BitOr(ALU_OPCODES[mnemonic], 6) >>)
  ELSE IF Len(operands) = 1 /\ IsNum(op)
  THEN Enc(<< ALU_IMM_OPCODES[mnemonic], Lo(op.v) >>)
  ELSE IF Len(operands) = 2 /\ IsStr(op, "A")
  THEN Invoke("encodeALU", << mnemonic, << operands[2] >> >>)
  ELSE EncErr("Unsupported ", mnemonic \o " pattern: " \o JoinOps(operands))

encodeADDHL(operands) ==
  IF Len(operands) = 2 /\ IsStr(operands[1], "HL") /\ Has(REG16, operands[2])
  THEN Enc(<< BitOr(9, REG16[operands[2].v] * 16) >>)
  ELSE EncErr("Unsupported ADD HL pattern", ": " \o JoinOps(operands))

encodeINC(operand) ==
  IF Has(REG8, operand) THEN Enc(<< BitOr(4, REG8[operand.v] * 8) >>)
  ELSE IF IsStr(operand, "(HL)") THEN Enc(<< 52 >>)
  ELSE IF Has(REG16, operand) THEN Enc(<< BitOr(3, REG16[operand.v] * 16) >>)
  ELSE EncErr("Unsupported INC operand", ": " \o OpStr(operand))

encodeDEC(operand) ==
  IF Has(REG8, operand) THEN Enc(<< BitOr(5, REG8[operand.v] * 8) >>)
  ELSE IF IsStr(operand, "(HL)") THEN Enc(<< 53 >>)
  ELSE IF Has(REG16, operand) THEN Enc(<< BitOr(11, REG16[operand.v] * 16) >>)
  ELSE EncErr("Unsupported DEC operand", ": " \o OpStr(operand))

encodePUSH(operand) ==
  IF Has(STACK_REG, operand) THEN Enc(<< BitOr(197, STACK_REG[operand.v] * 16) >>)
  ELSE EncErr("Unsupported PUSH operand", ": " \o OpStr(operand))

encodePOP(operand) ==
  IF Has(STACK_REG, operand) THEN Enc(<< BitOr(193, STACK_REG[operand.v] * 16) >>)
  ELSE EncErr("Unsupported POP operand", ": " \o OpStr(operand))

encodeCALL(operands) ==
  LET target == Op(operands, 1)
      cc == Op(operands, 1)
      target2 == Op(operands, 2)
  IN
  IF Len(operands) = 1 /\ IsNum(target)
  THEN Enc(<< 205, Lo(target.v), Hi(target.v) >>)
  ELSE IF Len(operands) = 2 /\ Has(CONDITIONS, cc) /\ IsNum(target2)
  THEN Enc(<< BitOr(196, CONDITIONS[cc.v] * 8), Lo(target2.v), Hi(target2.v) >>)
  ELSE EncErr("Unsupported CALL pattern", ": " \o JoinOps(operands))

encodeRETCC(cc) ==
  IF Has(CONDITIONS, cc) THEN Enc(<< BitOr(192, CONDITIONS[cc.v] * 8) >>)
  ELSE EncErr("Unsupported RET condition", ": " \o OpStr(cc))

\* encodeRST without the test that the address is a multiple of 8.
encodeRSTUnmasked(addr) ==
  IF IsNum(addr) /\ addr.v >= 0 /\ addr.v <= 56
  THEN Enc(<< BitOr(199, BitAnd(addr.v, 56)) >>)
  ELSE EncErr("Invalid RST address", ": " \o OpStr(addr))

encodeRST(addr) ==
  IF IsNum(addr) /\ addr.v >= 0 /\ addr.v <= 56 /\ BitAnd(addr.v, 56) = addr.v
  THEN Enc(<< BitOr(199, BitAnd(addr.v, 56)) >>)
  ELSE EncErr("Invalid RST address", ": " \o OpStr(addr))

CB_INSTRUCTIONS ==
  [m \in {"RLC", "RRC", "RL", "RR", "SLA", "SRA", "SLL", "SRL", "BIT", "RES", "SET"} |->
     CASE m = "RLC" -> 0 [] m = "RRC" -> 8 [] m = "RL" -> 16 [] m = "RR" -> 24
       [] m = "SLA" -> 32 [] m = "SRA" -> 40 [] m = "SLL" -> 48 [] m = "SRL" -> 56
       [] m = "BIT" -> 64 [] m = "RES" -> 128 [] m = "SET" -> 192]

encodeCB(mnemonic, operands) ==
  LET bit == Op(operands, 1)
      reg == IF mnemonic \in {"BIT", "SET", "RES"} THEN Op(operands, 2) ELSE Op(operands, 1)
      fail == EncErr("Unsupported CB instruction",
                     ": " \o mnemonic \o " " \o JoinOps(operands))
  IN
  IF mnemonic \in {"BIT", "SET", "RES"} THEN
    IF Len(operands) = 2 /\ IsNum(bit) /\ bit.v >= 0 /\ bit.v <= 7 THEN
      IF IsStr(reg, "(HL)")
      THEN Enc(<< 203, BitOr(BitOr(CB_INSTRUCTIONS[mnemonic], bit.v * 8), 6) >>)
      ELSE IF Has(REG8, reg)
      THEN Enc(<< 203, BitOr(BitOr(CB_INSTRUCTIONS[mnemonic], bit.v * 8), REG8[reg.v]) >>)
      ELSE fail
    ELSE fail
  ELSE
    IF Len(operands) = 1 /\ IsStr(reg, "(HL)")
    THEN Enc(<< 203, BitOr(CB_INSTRUCTIONS[mnemonic], 6) >>)
    ELSE IF Len(operands) = 1 /\ Has(REG8, reg)
    THEN Enc(<< 203, BitOr(CB_INSTRUCTIONS[mnemonic], REG8[reg.v]) >>)
    ELSE fail

encodeIN(operands) ==
  IF Len(operands) = 2 /\ IsStr(operands[1], "A") /\ IsNum(operands[2])
  THEN Enc(<< 219, Lo(operands[2].v) >>)
  ELSE EncErr("Unsupported IN pattern", ": " \o JoinOps(operands))

encodeOUT(operands) ==
  IF Len(operands) = 2 /\ IsStr(operands[2], "A") /\ IsNum(operands[1])
  THEN Enc(<< 211, Lo(operands[1].v) >>)
  ELSE EncErr("Unsupported OUT pattern", ": " \o JoinOps(operands))

-----------------------------------------------------------------------------
(* codegen.js (src/unnamed/part_009) *)

NewCodeGenerator(symbolTable, currentAddress) ==
  [symbolTable |-> symbolTable, currentAddress |-> currentAddress]

\* The callback of resolveOperands for one operand: [val, exc]
resolveOperand(cg, op) ==
  IF op.k = "ref" THEN
    IF HasSymbol(cg.symbolTable, op.v)
    THEN [val |-> NumOp(cg.symbolTable[op.v].address), exc |-> NoExc]
    ELSE [val |-> op, exc |-> Throw("Undefined symbol", ": " \o op.v)]
  ELSE IF op.k = "num" THEN [val |-> op, exc |-> NoExc]
  ELSE IF op.k = "str" THEN
    IF op.v \in {"A", "B", "C", "D", "E", "H", "L", "(HL)", "(BC)", "(DE)"}
    THEN [val |-> op, exc |-> NoExc]
    ELSE IF op.v \in {"NZ", "Z", "NC", "C", "PO", "PE", "P", "M"}
    THEN [val |-> op, exc |-> NoExc]
    ELSE IF op.v \in {"BC", "DE", "HL", "SP", "AF"}
    THEN [val |-> op, exc |-> NoExc]
    ELSE IF HasSymbol(cg.symbolTable, op.v)
    THEN [val |-> NumOp(cg.symbolTable[op.v].address), exc |-> NoExc]
    ELSE [val |-> op, exc |-> Throw("Undefined symbol", ": " \o op.v)]
  ELSE [val |-> op, exc |-> NoExc]

\* resolveOperands(operands, currentAddr): [val, exc]
RECURSIVE resolveOperands(_, _)
resolveOperands(cg, operands) ==
  IF Len(operands) = 0 THEN [val |-> << >>, exc |-> NoExc]
  ELSE LET r == resolveOperand(cg, Head(operands)) IN
       IF r.exc # NoExc THEN [val |-> << >>, exc |-> r.exc]
       ELSE LET rest == Invoke("resolveOperands", << cg, Tail(operands) >>)
            IN [val |-> << r.val >> \o rest.val, exc |-> rest.exc]

OutOfRange(offset) ==
  EncErr("Relative jump out of range",
         ": " \o ToString(offset) \o " (must be -128 to 127)")

\* encodeInstruction(inst): [bytes, exc].  this.currentAddress is saved and
\* restored around every use and read by nothing, so it is not threaded.
encodeInstruction(cg, inst) ==
  LET mnemonic == inst.mnemonic
      operands == inst.operands
      r == Invoke("resolveOperands", << cg, operands >>)
      resolved == r.val
      failed == [bytes |-> << >>, exc |-> r.exc]
  IN
  IF mnemonic \in DOMAIN SIMPLE_INSTRUCTIONS THEN Enc(SIMPLE_INSTRUCTIONS[mnemonic])
  ELSE IF mnemonic = "LD" THEN
    IF r.exc # NoExc THEN failed ELSE Invoke("encodeLD", << resolved >>)
  ELSE IF mnemonic = "JP" THEN
    IF r.exc # NoExc THEN failed ELSE Invoke("encodeJP", << resolved >>)
  ELSE IF mnemonic = "JR" THEN
    IF r.exc # NoExc THEN failed
    ELSE IF Len(resolved) = 1 /\ IsNum(resolved[1]) THEN
      LET offset == resolved[1].v - (inst.address + 2) IN
      IF offset < -128 \/ offset > 127 THEN OutOfRange(offset)
      ELSE Invoke("encodeJR", << << NumOp(offset) >> >>)
    ELSE IF Len(resolved) = 2 /\ IsNum(resolved[2]) THEN
      LET offset == resolved[2].v - (inst.address + 2) IN
      IF offset < -128 \/ offset > 127 THEN OutOfRange(offset)
      ELSE Invoke("encodeJR", << << resolved[1], NumOp(offset) >> >>)
    ELSE Invoke("encodeJR", << resolved >>)
  ELSE IF mnemonic = "DJNZ" THEN
    IF r.exc # NoExc THEN failed
    ELSE IF IsNum(Op(resolved, 1)) THEN
      LET offset == resolved[1].v - (inst.address + 2) IN
      IF offset < -128 \/ offset > 127 THEN OutOfRange(offset)
      ELSE Invoke("encodeDJNZ", << NumOp(offset) >>)
    ELSE Invoke("encodeDJNZ", << Op(resolved, 1) >>)
  ELSE IF mnemonic = "ADD" /\ Len(operands) = 2 /\ IsStr(operands[1], "HL") THEN
    IF r.exc # NoExc THEN failed ELSE Invoke("encodeADDHL", << resolved >>)
  ELSE IF mnemonic \in {"ADD", "ADC", "SUB", "SBC", "AND", "OR", "XOR", "CP"} THEN
    IF r.exc # NoExc THEN failed ELSE Invoke("encodeALU", << mnemonic, resolved >>)
  ELSE IF mnemonic = "INC" THEN
    IF r.exc # NoExc THEN failed ELSE Invoke("encodeINC", << Op(resolved, 1) >>)
  ELSE IF mnemonic = "DEC" THEN
    IF r.exc # NoExc THEN failed ELSE Invoke("encodeDEC", << Op(resolved, 1) >>)
  ELSE IF mnemonic = "PUSH" THEN
    IF r.exc # NoExc THEN failed ELSE Invoke("encodePUSH", << Op(resolved, 1) >>)
  ELSE IF mnemonic = "POP" THEN
    IF r.exc # NoExc THEN failed ELSE Invoke("encodePOP", << Op(resolved, 1) >>)
  ELSE IF mnemonic = "CALL" THEN
    IF r.exc # NoExc THEN failed ELSE Invoke("encodeCALL", << resolved >>)
  ELSE IF mnemonic = "RET" THEN
    IF Len(operands) = 0 THEN Enc(<< 201 >>)
    ELSE IF r.exc # NoExc THEN failed ELSE Invoke("encodeRETCC", << Op(resolved, 1) >>)
  ELSE IF mnemonic = "RST" THEN
    IF r.exc # NoExc THEN failed ELSE Invoke("encodeRST", << Op(resolved, 1) >>)
  ELSE IF mnemonic \in {"RLC", "RRC", "RL", "RR", "SLA", "SRA", "SLL", "SRL",
                        "BIT", "SET", "RES"} THEN
    IF r.exc # NoExc THEN failed ELSE Invoke("encodeCB", << mnemonic, resolved >>)
  ELSE IF mnemonic = "IN" THEN
    IF r.exc # NoExc THEN failed ELSE Invoke("encodeIN", << resolved >>)
  ELSE IF mnemonic = "OUT" THEN
    IF r.exc # NoExc THEN failed ELSE Invoke("encodeOUT", << resolved >>)
  ELSE EncErr("Unsupported instruction", ": " \o mnemonic)

LabelSymbol(address) == [address |-> address, type |-> "LABEL"]

\* One iteration of the first loop of generate():
\* g = [cg, result, currentAddress, exc].
generateFirstStep(g, inst0) ==
  LET inst == [inst0 EXCEPT !.address = g.currentAddress]
      table == IF Truthy(inst0.label)
               THEN SetSymbol(g.cg.symbolTable, inst0.label, LabelSymbol(g.currentAddress))
               ELSE g.cg.symbolTable
  IN
  IF inst0.type = "DATA" THEN
    [g EXCEPT !.cg.symbolTable = table,
              !.currentAddress = @ + Len(inst.bytes),
              !.result = Append(@, inst)]
  ELSE IF inst0.type = "INSTRUCTION" THEN
    LET cg == [g.cg EXCEPT !.currentAddress = g.currentAddress, !.symbolTable = table]
        encoding == Invoke("encodeInstruction", << cg, inst >>)
    IN IF encoding.exc # NoExc
       THEN [g EXCEPT !.cg = cg,
                      !.exc = [kind |-> "Line",
                               message |-> "Line " \o ToString(inst.address) \o ": "
                                           \o encoding.exc.message]]
       ELSE [g EXCEPT !.cg = cg,
                      !.currentAddress = @ + Len(encoding.bytes),
                      !.result = Append(@, [inst EXCEPT !.bytes = encoding.bytes])]
  ELSE g

\* The first loop of generate() over instructions[lo..hi], in order; the
\* throw of line 71 ends it.
RECURSIVE generateFirst(_, _, _, _)
generateFirst(g, instructions, lo, hi) ==
  IF g.exc # NoExc \/ lo > hi THEN g
  ELSE IF lo = hi THEN Invoke("generateFirstStep", << g, instructions[lo] >>)
  ELSE LET mid == (lo + hi) \div 2
       IN Invoke("generateFirst", << Invoke("generateFirst", << g, instructions, lo, mid >>), instructions, mid + 1, hi >>)

needsReresolve(inst) == \E j \in 1..Len(inst.operands) : inst.operands[j].k = "ref"

\* generateSecondStep with a catch that empties the bytes of an instruction
\* it fails to re-encode.
generateSecondStepClearing(g, i) ==
  LET inst == g.result[i] IN
  IF inst.type = "INSTRUCTION" /\ needsReresolve(inst) THEN
    LET cg == [g.cg EXCEPT !.currentAddress = inst.address]
        encoding == Invoke("encodeInstruction", << cg, inst >>)
    IN [g EXCEPT !.cg = cg,
                 !.result[i].bytes = IF encoding.exc = NoExc THEN encoding.bytes ELSE << >>]
  ELSE g

\* The second loop of generate(): a failed re-encoding is caught and only
\* logged, which leaves the bytes of the first loop in place.
generateSecondStep(g, i) ==
  LET inst == g.result[i] IN
  IF inst.type = "INSTRUCTION" /\ needsReresolve(inst) THEN
    LET cg == [g.cg EXCEPT !.currentAddress = inst.address]
        encoding == Invoke("encodeInstruction", << cg, inst >>)
    IN [g EXCEPT !.cg = cg,
                 !.result[i].bytes = IF encoding.exc = NoExc THEN encoding.bytes ELSE @]
  ELSE g

RECURSIVE generateSecond(_, _, _)
generateSecond(g, lo, hi) ==
  IF lo > hi \/ lo > Len(g.result) THEN g
  ELSE IF lo = hi THEN Invoke("generateSecondStep", << g, lo >>)
  ELSE LET mid == (lo + hi) \div 2
       IN Invoke("generateSecond", << Invoke("generateSecond", << g, lo, mid >>), mid + 1, hi >>)

NewGeneration(cg) ==
  [cg |-> cg, result |-> << >>, currentAddress |-> cg.currentAddress, exc |-> NoExc]

\* generate(instructions): [cg, result, currentAddress, exc]
generate(cg, instructions) ==
  LET g == Invoke("generateFirst", << NewGeneration(cg), instructions, 1, Len(instructions) >>)
  IN IF g.exc # NoExc THEN g ELSE Invoke("generateSecond", << g, 1, Len(g.result) >>)

-----------------------------------------------------------------------------
(* assembler.js (src/src/assembler.js): the Z80Assembler facade *)

\* totalSize of assembleBytes, summed over instructions[lo..hi].
RECURSIVE totalSize(_, _, _)
totalSize(instructions, lo, hi) ==
  IF lo > hi THEN 0
  ELSE IF lo = hi THEN Len(instructions[lo].bytes)
  ELSE LET mid == (lo + hi) \div 2
       IN totalSize(instructions, lo, mid) + totalSize(instructions, mid + 1, hi)

\* The inner loop of assembleBytes: bytes[offset++] = byte & 0xFF, where a
\* Uint8Array ignores a write past its end.  b = [bytes, offset]
RECURSIVE copyInstruction(_, _, _)
copyInstruction(b, instBytes, j) ==
  IF j > Len(instBytes) THEN b
  ELSE IF b.offset < Len(b.bytes)
  THEN copyInstruction([b EXCEPT !.bytes[b.offset + 1] = BitAnd(instBytes[j], 255),
                                 !.offset = @ + 1],
                       instBytes, j + 1)
  ELSE copyInstruction([b EXCEPT !.offset = @ + 1], instBytes, j + 1)

\* The second forEach of assembleBytes over instructions[lo..hi], in order;
\* once the array is full nothing more is written.
RECURSIVE copyBytes(_, _, _, _)
copyBytes(b, instructions, lo, hi) ==
  IF lo > hi \/ b.offset >= Len(b.bytes) THEN b
  ELSE IF lo = hi THEN copyInstruction(b, instructions[lo].bytes, 1)
  ELSE LET mid == (lo + hi) \div 2
       IN copyBytes(copyBytes(b, instructions, lo, mid), instructions, mid + 1, hi)

\* assembleBytes with the write offset off by one.
assembleBytesShifted(instructions) ==
  LET size == totalSize(instructions, 1, Len(instructions))
  IN copyBytes([bytes |-> [k \in 1..size |-> 0], offset |-> 1],
               instructions, 1, Len(instructions)).bytes

\* assembleBytes(instructions): a Uint8Array of the total size, filled record
\* by record.
assembleBytes(instructions) ==
  LET size == totalSize(instructions, 1, Len(instructions))
  IN copyBytes([bytes |-> [k \in 1..size |-> 0], offset |-> 0],
               instructions, 1, Len(instructions)).bytes

\* failResult reporting success.
failResultSuccess(message) ==
  [ success |-> TRUE,
    bytes |-> << >>,
    startAddress |-> DEFAULT_ORG,
    errors |-> << [message |-> message, line |-> 1, column |-> 1] >>,
    warnings |-> << >>,
    symbolTable |-> EmptyTable ]

\* failResult(message)
failResult(message) ==
  [ success |-> FALSE,
    bytes |-> << >>,
    startAddress |-> DEFAULT_ORG,
    errors |-> << [message |-> message, line |-> 1, column |-> 1] >>,
    warnings |-> << >>,
    symbolTable |-> EmptyTable ]

\* The errors the facade makes of the lexer's ERROR tokens.
RECURSIVE lexerErrors(_)
lexerErrors(toks) ==
  IF toks = << >> THEN << >>
  ELSE (IF Head(toks).type = "ERROR"
        THEN << [message |-> "Unexpected character: " \o Head(toks).value,
                 line |-> Head(toks).line, column |-> Head(toks).column] >>
        ELSE << >>) \o lexerErrors(Tail(toks))

------------------------------------------------------------------------

Invoke(method, args) ==
  CASE method = "scanNumber" -> scanNumber(args[1])
    [] method = "scanIdentifier" -> scanIdentifier(args[1])
    [] method = "scanComment" -> scanComment(args[1])
    [] method = "scanString" -> scanString(args[1], args[2])
    [] method = "scanToken" -> scanToken(args[1])
    [] method = "tokenize" -> tokenize(args[1])
    [] method = "preprocess" -> preprocess(args[1], args[2], args[3], args[4], args[5])
    [] method = "parseExpression" -> parseExpression(args[1], args[2])
    [] method = "parseAdditive" -> parseAdditive(args[1], args[2])
    [] method = "additiveLoop" -> additiveLoop(args[1], args[2], args[3])
    [] method = "parseMultiplicative" -> parseMultiplicative(args[1], args[2])
    [] method = "multiplicativeLoop" -> multiplicativeLoop(args[1], args[2], args[3])
    [] method = "parseUnary" -> parseUnary(args[1], args[2])
    [] method = "evaluate" -> evaluate(args[1], args[2], args[3])
    [] method = "parseExpressionValue" -> parseExpressionValue(args[1], args[2])
    [] method = "sizeScan" -> sizeScan(args[1], args[2])
    [] method = "calculateInstructionSize" -> calculateInstructionSize(args[1])
    [] method = "parseDBPass1" -> parseDBPass1(args[1])
    [] method = "parseDWPass1" -> parseDWPass1(args[1])
    [] method = "parseDirectivePass1" -> parseDirectivePass1(args[1])
    [] method = "parseLinePass1" -> parseLinePass1(args[1])
    [] method = "parseOperand" -> parseOperand(args[1])
    [] method = "moreOperands" -> moreOperands(args[1], args[2])
    [] method = "parseOperands" -> parseOperands(args[1])
    [] method = "estimateInstructionSize" -> estimateInstructionSize(args[1], args[2])
    [] method = "parseInstruction" -> parseInstruction(args[1])
    [] method = "dbLoop" -> dbLoop(args[1], args[2], args[3], args[4])
    [] method = "parseDBPass2" -> parseDBPass2(args[1])
    [] method = "dwLoop" -> dwLoop(args[1], args[2])
    [] method = "parseDWPass2" -> parseDWPass2(args[1])
    [] method = "parseDirectivePass2" -> parseDirectivePass2(args[1])
    [] method = "parseLinePass2" -> parseLinePass2(args[1])
    [] method = "parsePass1" -> parsePass1(args[1])
    [] method = "parsePass2" -> parsePass2(args[1])
    [] method = "encodeLD" -> encodeLD(args[1])
    [] method = "encodeJP" -> encodeJP(args[1])
    [] method = "encodeJR" -> encodeJR(args[1])
    [] method = "encodeDJNZ" -> encodeDJNZ(args[1])
    [] method = "encodeALU" -> encodeALU(args[1], args[2])
    [] method = "encodeADDHL" -> encodeADDHL(args[1])
    [] method = "encodeINC" -> encodeINC(args[1])
    [] method = "encodeDEC" -> encodeDEC(args[1])
    [] method = "encodePUSH" -> encodePUSH(args[1])
    [] method = "encodePOP" -> encodePOP(args[1])
    [] method = "encodeCALL" -> encodeCALL(args[1])
    [] method = "encodeRETCC" -> encodeRETCC(args[1])
    [] method = "encodeRST" -> encodeRST(args[1])
    [] method = "encodeCB" -> encodeCB(args[1], args[2])
    [] method = "encodeIN" -> encodeIN(args[1])
    [] method = "encodeOUT" -> encodeOUT(args[1])
    [] method = "resolveOperands" -> resolveOperands(args[1], args[2])
    [] method = "encodeInstruction" -> encodeInstruction(args[1], args[2])
    [] method = "generateFirstStep" -> generateFirstStep(args[1], args[2])
    [] method = "generateFirst" -> generateFirst(args[1], args[2], args[3], args[4])
    [] method = "generateSecondStep" -> generateSecondStep(args[1], args[2])
    [] method = "generateSecond" -> generateSecond(args[1], args[2], args[3])
    [] method = "assembleBytes" -> assembleBytes(args[1])

-----
(* The sources given to assemble().  A source line is written as the tuple
   of its characters. *)

\* .ORG $4300
LineOrg == << ".", "O", "R", "G", " ", "$", "4", "3", "0", "0" >>

\* L1: NOP
LineNop == << "L", "1", ":", " ", "N", "O", "P" >>

\* L2: LD A,5
LineLdImm == << "L", "2", ":", " ", "L", "D", " ", "A", ",", "5" >>

\* JR L1
LineJr == << "J", "R", " ", "L", "1" >>

\* L3: .DB 1,2
LineDb == << "L", "3", ":", " ", ".", "D", "B", " ", "1", ",", "2" >>

\* LD HL,5
LineLdHl == << "L", "D", " ", "H", "L", ",", "5" >>

\* DJNZ L2
LineDjnz == << "D", "J", "N", "Z", " ", "L", "2" >>

\* JR $4283
LineJrNum == << "J", "R", " ", "$", "4", "2", "8", "3" >>

\* EX DE,HL
LineEx == << "E", "X", " ", "D", "E", ",", "H", "L" >>

\* LD A,(L3)
LineLdInd == << "L", "D", " ", "A", ",", "(", "L", "3", ")" >>

\* @
LineBadChar == << "@" >>

\* LD A,
LineBadOperand == << "L", "D", " ", "A", "," >>

\* X .EQU 5
LineEqu == << "X", " ", ".", "E", "Q", "U", " ", "5" >>

\* .DS 125
LineDs125 == << ".", "D", "S", " ", "1", "2", "5" >>

\* .DS 127
LineDs127 == << ".", "D", "S", " ", "1", "2", "7" >>

\* .DS 128
LineDs128 == << ".", "D", "S", " ", "1", "2", "8" >>

\* LD A,X
LineLdEqu == << "L", "D", " ", "A", ",", "X" >>

\* .ORG $4200
LineOrgDefault == << ".", "O", "R", "G", " ", "$", "4", "2", "0", "0" >>

\* HALT
LineHalt == << "H", "A", "L", "T" >>

Templates ==
  { LineOrg,
    LineNop,
    LineLdImm,
    LineJr,
    LineDb,
    LineLdHl,
    LineDjnz,
    LineJrNum,
    LineEx,
    LineLdInd,
    LineBadChar,
    LineBadOperand,
    LineEqu }

\* The most statements a generated program has.
MaxStmts == 2

\* The most calls made on one assembler instance.
MaxCalls == 3

\* lines.join("\n")
RECURSIVE JoinLines(_)
JoinLines(lines) ==
  IF Len(lines) = 0 THEN << >>
  ELSE IF Len(lines) = 1 THEN lines[1]
  ELSE lines[1] \o << "\n" >> \o JoinLines(Tail(lines))

\* A JS value passed as the source: a string, or something that is not one.
JsString(chars) == [typeof |-> "string", chars |-> chars]

JsOther(t) == [typeof |-> t, chars |-> << >>]

GeneratedPrograms ==
  { JoinLines(lines) : lines \in UNION { [1..n -> Templates] : n \in 1..MaxStmts } }

\* Programs that put a relative jump at the edges of its range, and programs
\* whose pass-1 sizes differ from the encoded sizes.
Scenarios ==
  { JoinLines(<< LineJr, LineDs127, LineNop >>),
    JoinLines(<< LineNop, LineDs125, LineJr >>),
    JoinLines(<< LineJr, LineDs128, LineNop >>),
    JoinLines(<< LineJr, LineLdHl, LineDs125, LineNop >>),
    JoinLines(<< LineEqu, LineJr, LineLdEqu, LineDs125, LineNop >>),
    JoinLines(<< LineOrgDefault, LineLdImm, LineNop, LineDb, LineHalt >>),
    JoinLines(<< LineOrg, LineLdHl, LineLdImm, LineNop, LineDb >>) }

BlankSources == { << >>, << " ", " " >>, << " ", "\n", "\t" >> }

NonStrings == { JsOther("undefined"), JsOther("object"), JsOther("number") }

Sources ==
  NonStrings \cup { JsString(s) : s \in BlankSources \cup GeneratedPrograms \cup Scenarios }

ReuseSources ==
  { JsOther("undefined"),
    JsString(<< " ", " " >>),
    JsString(LineBadChar),
    JsString(LineEx),
    JsString(JoinLines(<< LineEqu, LineEqu >>)),
    JsString(JoinLines(<< LineJr, LineNop >>)) }

-----------------------------------------------------------------------------
(* The state machine: one Z80Assembler instance and its assemble() calls.
   assemble() is followed stage by stage; the lexer, parser and code
   generator objects are locals of one call. *)

NoResult == [pending |-> TRUE]

NoLexer == NewLexer(<< >>)

NoTokens == << >>

NoParser == NewParser(<< >>)

NoCodegen == NewGeneration(NewCodeGenerator(EmptyTable, DEFAULT_ORG))

\* assemble() returns r.
Finish(r) ==
  /\ result' = r
  /\ stage' = "done"

\* new Z80Assembler(): the constructor calls reset().
InitWith(S) ==
  /\ source \in S
  /\ stage = "idle"
  /\ asmErrors = << >>
  /\ asmWarnings = << >>
  /\ lexer = NoLexer
  /\ tokens = NoTokens
  /\ parser = NoParser
  /\ codegen = NoCodegen
  /\ result = NoResult
  /\ stagesRun = << >>
  /\ calls = 1
  /\ history = << >>

Init == InitWith(Sources)

InitReuse == InitWith(ReuseSources)

\* reset() leaving the instance's lists as they are.
resetNothing == UNCHANGED << asmErrors, asmWarnings >>

\* reset()
reset == asmErrors' = << >> /\ asmWarnings' = << >>

\* assemble(source), lines 119-131: reset(), the two input checks and
\* new Lexer(source).
Call ==
  /\ stage = "idle"
  /\ reset
  /\ stagesRun' = << >>
  /\ tokens' = NoTokens /\ parser' = NoParser /\ codegen' = NoCodegen
  /\ IF source.typeof # "string"
     THEN Finish(failResult("Source must be a string")) /\ lexer' = NoLexer
     ELSE IF Len(Trim(source.chars)) = 0
     THEN Finish(failResult("Empty source")) /\ lexer' = NoLexer
     ELSE stage' = "lex" /\ lexer' = NewLexer(source.chars) /\ UNCHANGED result
  /\ UNCHANGED << source, calls, history >>

\* Lines 131-142: tokenize and report the lexer's ERROR tokens.
Tokenize ==
  /\ stage = "lex"
  /\ LET toks == Invoke("tokenize", << lexer >>) IN
       /\ lexer' = tokenized(lexer)
       /\ tokens' = toks
       /\ asmErrors' = asmErrors \o lexerErrors(toks)
  /\ stage' = "parse1"
  /\ stagesRun' = Append(stagesRun, "lexer")
  /\ UNCHANGED << source, asmWarnings, parser, codegen, result, calls, history >>

\* Line 144 and pass 1 of parser.parse().
ParsePass1 ==
  /\ stage = "parse1"
  /\ parser' = Invoke("parsePass1", << NewParser(tokens) >>)
  /\ stage' = "parse2"
  /\ stagesRun' = Append(stagesRun, "parser")
  /\ UNCHANGED << source, lexer, asmErrors, asmWarnings, tokens, codegen, result, calls, history >>

\* Pass 2 of parser.parse() and lines 147-148.
ParsePass2 ==
  /\ stage = "parse2"
  /\ LET p == Invoke("parsePass2", << parser >>) IN
       /\ parser' = p
       /\ asmErrors' = asmErrors \o parseResult(p).errors
       /\ asmWarnings' = asmWarnings \o parseResult(p).warnings
  /\ stage' = "gen1"
  /\ UNCHANGED << source, lexer, tokens, codegen, result, stagesRun, calls, history >>

\* GenerateFirst with a catch clause that adds its error to the errors
\* collected so far.
GenerateFirstKeepErrors ==
  /\ stage = "gen1"
  /\ LET r == parseResult(parser)
         g == Invoke("generateFirst", << NewGeneration(NewCodeGenerator(r.symbolTable, r.startAddress)),
                            r.instructions, 1, Len(r.instructions) >>)
         f == failResult("Internal assembler error: " \o g.exc.message)
     IN /\ codegen' = g
        /\ IF g.exc # NoExc
           THEN Finish([f EXCEPT !.errors = asmErrors \o @])
           ELSE stage' = "gen2" /\ UNCHANGED result
  /\ stagesRun' = Append(stagesRun, "codegen")
  /\ UNCHANGED << source, lexer, asmErrors, asmWarnings, tokens, parser, calls, history >>

\* Lines 152-153 up to the end of generate()'s first loop; an exception
\* leaves through the catch of lines 166-168.
GenerateFirst ==
  /\ stage = "gen1"
  /\ LET r == parseResult(parser)
         g == Invoke("generateFirst", << NewGeneration(NewCodeGenerator(r.symbolTable, r.startAddress)),
                            r.instructions, 1, Len(r.instructions) >>)
     IN /\ codegen' = g
        /\ IF g.exc # NoExc
           THEN Finish(failResult("Internal assembler error: " \o g.exc.message))
           ELSE stage' = "gen2" /\ UNCHANGED result
  /\ stagesRun' = Append(stagesRun, "codegen")
  /\ UNCHANGED << source, lexer, asmErrors, asmWarnings, tokens, parser, calls, history >>

\* generate()'s second loop.
GenerateSecond ==
  /\ stage = "gen2"
  /\ codegen' = Invoke("generateSecond", << codegen, 1, Len(codegen.result) >>)
  /\ stage' = "emit"
  /\ UNCHANGED << source, lexer, asmErrors, asmWarnings, tokens, parser, result, stagesRun,
                  calls, history >>

\* Lines 155-165: assembleBytes and the returned object.
Return ==
  /\ stage = "emit"
  /\ Finish([ success |-> Len(asmErrors) = 0,
              bytes |-> Invoke("assembleBytes", << codegen.result >>),
              startAddress |-> parseResult(parser).startAddress,
              errors |-> asmErrors,
              warnings |-> asmWarnings,
              symbolTable |-> codegen.cg.symbolTable,
              instructions |-> codegen.result ])
  /\ UNCHANGED << source, lexer, asmErrors, asmWarnings, tokens, parser, codegen, stagesRun, calls,
                  history >>

\* The caller makes another call on the same instance.
Reuse ==
  /\ stage = "done"
  /\ calls < MaxCalls
  /\ source' \in ReuseSources
  /\ calls' = calls + 1
  /\ stage' = "idle"
  /\ history' = Append(history, [source |-> source, result |-> result])
  /\ UNCHANGED << lexer, asmErrors, asmWarnings, tokens, parser, codegen, result, stagesRun >>

Next ==
  \/ Call
  \/ Tokenize
  \/ ParsePass1
  \/ ParsePass2
  \/ GenerateFirst
  \/ GenerateSecond
  \/ Return

NextReuse == Next \/ Reuse

Spec == Init /\ [][Next]_vars

SpecReuse == InitReuse /\ [][NextReuse]_vars

-----------------------------------------------------------------------------
(* assemble(source) as one function of its argument *)

\* assemble(src) on a new Z80Assembler: the stages above, one after another,
\* with the instance's errors and warnings empty as reset() leaves them.
assemble(src) ==
  IF src.typeof # "string" THEN failResult("Source must be a string")
  ELSE IF Len(Trim(src.chars)) = 0 THEN failResult("Empty source")
  ELSE
    LET toks == Invoke("tokenize", << NewLexer(src.chars) >>)
        p == Invoke("parsePass2", << Invoke("parsePass1", << NewParser(toks) >>) >>)
        r == parseResult(p)
        g == generate(NewCodeGenerator(r.symbolTable, r.startAddress), r.instructions)
        errors == lexerErrors(toks) \o r.errors
    IN IF g.exc # NoExc THEN failResult("Internal assembler error: " \o g.exc.message)
       ELSE [ success |-> Len(errors) = 0,
              bytes |-> Invoke("assembleBytes", << g.result >>),
              startAddress |-> r.startAddress,
              errors |-> errors,
              warnings |-> r.warnings,
              symbolTable |-> g.cg.symbolTable,
              instructions |-> g.result ]

-----------------------------------------------------------------------------
(* Vocabulary of the properties *)

\* assemble() has returned.
Done == stage = "done"

\* assemble() has returned through its normal return statement.
Completed == Done /\ "instructions" \in DOMAIN result

Succeeded == Completed /\ result.success

\* The tokens of this call as the parser holds them (comments removed).
Tok(i) == TokAt(parser, i)

TokenIndices == 0..(Len(parser.tokens) - 1)

StartsStatement(t) == t = 0 \/ Tok(t - 1).type = TOKEN_NEWLINE

EquDirectives == {".EQU", "EQU", ".DEFL", "DEFL"}

DataDirectives == {".DB", "DB", "DEFB", ".DW", "DW", "DEFW", ".DS", "DS", "DEFS"}

\* Token t is a label definition: "name:" or "name <directive>" other than an
\* EQU/DEFL.
DefinesLabel(t) ==
  /\ Tok(t).type = TOKEN_LABEL
  /\ StartsStatement(t)
  /\ \/ Tok(t + 1).type = TOKEN_COLON
     \/ Tok(t + 1).type = TOKEN_DIRECTIVE /\ Tok(t + 1).value \notin EquDirectives

\* No other statement defines the same name.
DefinedOnce(t) ==
  \A u \in TokenIndices :
    (Tok(u).type = TOKEN_LABEL /\ StartsStatement(u) /\ u # t) => Tok(u).value # Tok(t).value

\* The mnemonic or directive token of the statement labelled at token t.
StatementOf(t) == IF Tok(t + 1).type = TOKEN_COLON THEN t + 2 ELSE t + 1

\* Record i is the first record the statement at token st emitted.
FirstRecordOf(recs, st, i) ==
  recs[i].stmt = st /\ (i = 1 \/ recs[i - 1].stmt # st)

\* Token t is ".ORG n" with a plain number n ending the line.
IsOrg(t) ==
  /\ Tok(t).type = TOKEN_DIRECTIVE
  /\ Tok(t).value \in {".ORG", "ORG"}
  /\ StartsStatement(t)
  /\ Tok(t + 1).type = TOKEN_NUMBER
  /\ Tok(t + 2).type \in {TOKEN_NEWLINE, TOKEN_EOF}

HasOrg == \E t \in TokenIndices : IsOrg(t)

FirstOrg == CHOOSE t \in TokenIndices : IsOrg(t) /\ \A u \in 0..(t - 1) : ~IsOrg(u)

\* Record rec is an encoded JR or DJNZ.
IsRelJump(rec) ==
  /\ rec.type = "INSTRUCTION"
  /\ rec.mnemonic \in {"JR", "DJNZ"}
  /\ Len(rec.operands) >= 1
  /\ Len(rec.bytes) = 2

\* The operand naming the target of a JR or DJNZ: the last one.
TargetOperand(rec) == rec.operands[Len(rec.operands)]

TargetKnown(rec, st) ==
  \/ TargetOperand(rec).k = "num"
  \/ TargetOperand(rec).k = "ref" /\ HasSymbol(st, TargetOperand(rec).v)

\* The address a JR or DJNZ names, read from the final symbol table st.
TargetAddress(rec, st) ==
  IF TargetOperand(rec).k = "num" THEN TargetOperand(rec).v
  ELSE st[TargetOperand(rec).v].address

SignExtend(b) == IF b >= 128 THEN b - 256 ELSE b

\* target - (A + 2) from the final addresses.
Displacement(rec, st) == TargetAddress(rec, st) - (rec.address + 2)

Records == result.instructions

RecordIndices == 1..Len(result.instructions)

-----------------------------------------------------------------------------
(* C1 *)

\* C1: the result's bytes are the concatenation, in source order, of the bytes
\* of every emitted record, so their number is the sum of the records' byte
\* lengths; and every record comes from an instruction or a .DB/.DW/.DS
\* statement, never from .ORG, so .ORG contributes no byte.
C1_BytesAreRecordsInOrder ==
  Completed =>
    /\ Len(result.bytes) = totalSize(Records, 1, Len(Records))
    /\ \A i \in RecordIndices :
         \A j \in 1..Len(Records[i].bytes) :
           result.bytes[totalSize(Records, 1, i - 1) + j] = Records[i].bytes[j]
    /\ \A i \in RecordIndices :
         /\ i > 1 => Records[i - 1].stmt <= Records[i].stmt
         /\ \/ Tok(Records[i].stmt).type = TOKEN_MNEMONIC
            \/ /\ Tok(Records[i].stmt).type = TOKEN_DIRECTIVE
               /\ Tok(Records[i].stmt).value \in DataDirectives

\* A program with an .ORG other than the default and several records has been
\* assembled into a non-empty image.
C1_Witness ==
  /\ Succeeded
  /\ HasOrg /\ Tok(FirstOrg + 1).value # DEFAULT_ORG
  /\ Len(Records) >= 2
  /\ Len(result.bytes) >= 3

-----------------------------------------------------------------------------
(* C2 *)

\* C2: in every result assemble() returns, whether it left through a
\* validation failure, the normal return or the internal-failure catch,
\* success is true exactly when the errors list is empty, whatever the
\* warnings are.
C2_SuccessIffNoErrors ==
  Done => (result.success <=> Len(result.errors) = 0)

\* A call returned success with a warning in its result.
C2_Witness ==
  /\ Completed
  /\ result.success
  /\ Len(result.warnings) > 0

-----------------------------------------------------------------------------
(* C3 *)

\* C3: after a successful assembly, the symbol table's address of every label
\* equals the code-generation address of the first record of the statement the
\* label is defined on, whatever that statement is.
C3_LabelAddressIsRecordAddress ==
  Succeeded =>
    \A t \in TokenIndices :
      (DefinesLabel(t) /\ DefinedOnce(t)) =>
        \A i \in RecordIndices :
          FirstRecordOf(Records, StatementOf(t), i) =>
            /\ HasSymbol(result.symbolTable, Tok(t).value)
            /\ result.symbolTable[Tok(t).value].address = Records[i].address

-----------------------------------------------------------------------------
(* C4 *)

\* C4: the result's startAddress is the target of the first .ORG of the source
\* when there is one and DEFAULT_ORG otherwise, and the first record, where
\* code generation starts counting, has that address.
C4_StartAddressIsFirstOrg ==
  Completed =>
    LET origin == IF HasOrg THEN Tok(FirstOrg + 1).value ELSE DEFAULT_ORG
    IN /\ result.startAddress = origin
       /\ (Len(Records) > 0 /\ (HasOrg => Records[1].stmt > FirstOrg)) =>
            Records[1].address = origin

-----------------------------------------------------------------------------
(* C5 *)

\* C5: a label defined on the first statement after ".ORG n" has address n in
\* the final symbol table, for every n and every kind of labelled statement.
C5_OrgSetsLabelAddress ==
  Succeeded =>
    \A t \in TokenIndices :
      (IsOrg(t) /\ Tok(t + 2).type = TOKEN_NEWLINE
                /\ DefinesLabel(t + 3) /\ DefinedOnce(t + 3)) =>
        /\ HasSymbol(result.symbolTable, Tok(t + 3).value)
        /\ result.symbolTable[Tok(t + 3).value].address = Tok(t + 1).value

-----------------------------------------------------------------------------
(* C6 *)

\* C6: in a successful result, the displacement byte e8 of every JR and DJNZ
\* satisfies target = address + 2 + sign_extend(e8), with the instruction's
\* final address and the target's final symbol-table address or numeric
\* operand.
C6_DisplacementReachesTarget ==
  Succeeded =>
    \A i \in RecordIndices :
      IsRelJump(Records[i]) =>
        /\ TargetKnown(Records[i], result.symbolTable)
        /\ TargetAddress(Records[i], result.symbolTable)
             = Records[i].address + 2 + SignExtend(Records[i].bytes[2])

-----------------------------------------------------------------------------
(* C7 *)

\* C7: no successful result holds a JR or DJNZ whose displacement between the
\* final addresses is outside -128..127, and one whose displacement is 127 or
\* -128 carries the byte 0x7F or 0x80.
C7_RangeEdges ==
  Succeeded =>
    \A i \in RecordIndices :
      (IsRelJump(Records[i]) /\ TargetKnown(Records[i], result.symbolTable)) =>
        LET d == Displacement(Records[i], result.symbolTable)
        IN /\ d \in -128..127
           /\ d = 127 => Records[i].bytes[2] = 127
           /\ d = -128 => Records[i].bytes[2] = 128

-----------------------------------------------------------------------------
(* C8 *)

\* C8: whatever calls were made on the instance before, a call returns what a
\* new instance returns for the same source, and so the same as every earlier
\* call with that source.
C8_CallsAreIndependent ==
  Done =>
    /\ result = assemble(source)
    /\ \A k \in 1..Len(history) :
         history[k].source = source => history[k].result = result

\* A source is assembled successfully a second time, after a call with
\* another source that returned errors.
C8_Witness ==
  /\ Succeeded
  /\ \E k \in 1..Len(history) : history[k].source = source
  /\ \E k \in 1..Len(history) :
       history[k].source # source /\ Len(history[k].result.errors) > 0

-----------------------------------------------------------------------------
(* C9 *)

\* Every character of chars is white space.
IsBlank(chars) == \A i \in 1..Len(chars) : chars[i] \in {" ", "\t", "\n", "\r"}

\* C9: a call whose source is not a string, or is an empty or whitespace-only
\* string, runs no lexer, parser or code-generator stage and returns
\* success=false with exactly one error, no bytes and an empty symbol table.
C9_InvalidSourceRejected ==
  (source.typeof # "string" \/ IsBlank(source.chars)) =>
    /\ stage \in {"idle", "done"}
    /\ stagesRun = << >>
    /\ Done =>
         /\ result.success = FALSE
         /\ Len(result.errors) = 1
         /\ result.errors[1].message =
              IF source.typeof # "string" THEN "Source must be a string" ELSE "Empty source"
         /\ result.bytes = << >>
         /\ DOMAIN result.symbolTable = {}

\* A call with a non-empty whitespace-only string has returned.
C9_Witness ==
  /\ Done
  /\ source.typeof = "string"
  /\ Len(source.chars) > 0
  /\ IsBlank(source.chars)

-----------------------------------------------------------------------------
(* C10 *)

\* C10: when a stage throws (in the program only generate() lets an exception
\* out), assemble() returns success=false, exactly one error, at line 1
\* column 1, and no bytes.
C10_InternalFailure ==
  (Done /\ codegen.exc # NoExc) =>
    /\ result.success = FALSE
    /\ Len(result.errors) = 1
    /\ result.errors[1].line = 1
    /\ result.errors[1].column = 1
    /\ result.bytes = << >>

\* generate() threw in a call that had already collected errors.
C10_Witness ==
  /\ Done
  /\ codegen.exc # NoExc
  /\ Len(asmErrors) > 0

-----------------------------------------------------------------------------
(* Programs that define and reference symbols *)

\* X .EQU Y+1
LineEquFwd == << "X", " ", ".", "E", "Q", "U", " ", "Y", "+", "1" >>

\* X .DEFL Y+1
LineDeflFwd == << "X", " ", ".", "D", "E", "F", "L", " ", "Y", "+", "1" >>

\* Y .EQU 5
LineEquY == << "Y", " ", ".", "E", "Q", "U", " ", "5" >>

\* X .DEFL 7
LineDeflX == << "X", " ", ".", "D", "E", "F", "L", " ", "7" >>

\* Y: NOP
LineLabelY == << "Y", ":", " ", "N", "O", "P" >>

\* L1 .EQU 5
LineEquL1 == << "L", "1", " ", ".", "E", "Q", "U", " ", "5" >>

\* .DB Y
LineDbY == << ".", "D", "B", " ", "Y" >>

\* LD A,Y+1
LineLdExprY == << "L", "D", " ", "A", ",", "Y", "+", "1" >>

\* JP Y
LineJpY == << "J", "P", " ", "Y" >>

\* LD A,(Y)
LineLdIndY == << "L", "D", " ", "A", ",", "(", "Y", ")" >>

\* .DW Y+1
LineDwY == << ".", "D", "W", " ", "Y", "+", "1" >>

\* .ORG Y
LineOrgY == << ".", "O", "R", "G", " ", "Y" >>

\* .DS Y
LineDsY == << ".", "D", "S", " ", "Y" >>

SymbolTemplates ==
  { LineEquFwd,
    LineDeflFwd,
    LineEquY,
    LineDeflX,
    LineLabelY,
    LineEquL1,
    LineDbY,
    LineLdExprY,
    LineJpY,
    LineLdIndY,
    LineNop,
    LineEqu }

SymbolScenarios ==
  { LineDwY,
    LineOrgY,
    LineDsY,
    JoinLines(<< LineEquY, LineDwY >>),
    JoinLines(<< LineEquY, LineOrgY, LineNop >>),
    JoinLines(<< LineEquY, LineDsY >>),
    JoinLines(<< LineEquFwd, LineDeflFwd, LineEquY >>),
    JoinLines(<< LineEqu, LineDeflX, LineDeflX >>),
    JoinLines(<< LineNop, LineLdImm, LineEquL1 >>) }

SymbolSources ==
  { JsString(JoinLines(lines)) :
      lines \in UNION { [1..n -> SymbolTemplates] : n \in 1..MaxStmts } }
    \cup { JsString(s) : s \in SymbolScenarios }

InitSymbols == InitWith(SymbolSources)

SpecSymbols == InitSymbols /\ [][Next]_vars

-----------------------------------------------------------------------------
(* C11 *)

\* No line ends between tokens t and u.
SameLine(t, u) == \A w \in t..u : Tok(w).type # TOKEN_NEWLINE

\* Token t begins a statement "name .EQU expr" or "name .DEFL expr".
IsEquStatement(t) ==
  /\ Tok(t).type = TOKEN_LABEL
  /\ StartsStatement(t)
  /\ Tok(t + 1).type = TOKEN_DIRECTIVE
  /\ Tok(t + 1).value \in EquDirectives

\* A statement before token t begins with name.
NamedBefore(name, t) ==
  \E s \in 0..(t - 1) :
    Tok(s).type = TOKEN_LABEL /\ StartsStatement(s) /\ Tok(s).value = name

\* No statement but the one at token t begins with the name at t.
NamedOnlyAt(t) ==
  \A s \in TokenIndices :
    (Tok(s).type = TOKEN_LABEL /\ StartsStatement(s) /\ s # t) => Tok(s).value # Tok(t).value

\* Token u is the first symbol in the expression of the EQU/DEFL statement at
\* token t, and no statement before t defines it.
ForwardReference(t, u) ==
  /\ IsEquStatement(t)
  /\ u > t + 1
  /\ SameLine(t, u)
  /\ Tok(u).type = TOKEN_LABEL
  /\ \A w \in (t + 2)..(u - 1) : Tok(w).type # TOKEN_LABEL
  /\ ~NamedBefore(Tok(u).value, t)

-----------------------------------------------------------------------------
(* C12 *)

\* Token u is a symbol used in an instruction operand or a directive argument
\* (not the right-hand side of an EQU/DEFL), and no statement of the source
\* defines it.
UnboundReference(u) ==
  /\ Tok(u).type = TOKEN_LABEL
  /\ ~StartsStatement(u)
  /\ \A t \in 0..(u - 1) : ~(IsEquStatement(t) /\ SameLine(t, u))
  /\ ~NamedBefore(Tok(u).value, Len(parser.tokens))

\* C12: a reference in pass 2 to a symbol that has no binding, as a bare label
\* operand, a (label) operand, or inside an expression of an instruction
\* operand or of a .DB/.DW/.ORG/.DS argument, is reported as an error and
\* makes success false.
C12_UnboundReferenceIsError ==
  Done =>
    \A u \in TokenIndices :
      UnboundReference(u) =>
        /\ result.success = FALSE
        /\ Len(result.errors) > 0

-----------------------------------------------------------------------------
(* C13 *)

\* Token t begins a statement that defines the symbol named at t.
DefinesSymbol(t) == DefinesLabel(t) \/ IsEquStatement(t)

\* The kind of the definition at token t.
KindOf(t) ==
  IF ~IsEquStatement(t) THEN "LABEL"
  ELSE IF Tok(t + 1).value \in {".DEFL", "DEFL"} THEN "DEFL"
  ELSE "EQU"

\* The definition at token t is a redefinition: an earlier statement defines
\* the same name.
Redefines(t) ==
  /\ DefinesSymbol(t)
  /\ \E s \in 0..(t - 1) : DefinesSymbol(s) /\ Tok(s).value = Tok(t).value

\* The definition at token t is the last one of its name.
LastDefinition(t) ==
  /\ DefinesSymbol(t)
  /\ \A s \in TokenIndices :
       (s > t /\ DefinesSymbol(s)) => Tok(s).value # Tok(t).value

\* The statement at token t is "name .EQU n" or "name .DEFL n" for a number n.
HasNumericValue(t) ==
  /\ IsEquStatement(t)
  /\ Tok(t + 2).type = TOKEN_NUMBER
  /\ Tok(t + 3).type \in {TOKEN_NEWLINE, TOKEN_EOF}

RedefinedWarnings(name) ==
  { k \in 1..Len(result.warnings) :
      result.warnings[k].message = "Symbol " \o name \o " redefined" }

\* C13: in an assembly without errors, every name has one 'redefined' warning
\* for each of its redefinitions that is not a DEFL and none for the others,
\* and the final symbol table holds the binding of the name's last definition
\* in the source.
C13_LaterBindingWins ==
  Succeeded =>
    \A t \in TokenIndices :
      LastDefinition(t) =>
        /\ Cardinality(RedefinedWarnings(Tok(t).value))
             = Cardinality({ s \in TokenIndices :
                               /\ Redefines(s)
                               /\ Tok(s).value = Tok(t).value
                               /\ KindOf(s) # "DEFL" })
        /\ HasSymbol(result.symbolTable, Tok(t).value)
        /\ result.symbolTable[Tok(t).value].type = KindOf(t)
        /\ HasNumericValue(t) =>
             result.symbolTable[Tok(t).value].address = Tok(t + 2).value

-----------------------------------------------------------------------------
(* Programs that exercise the instruction encodings *)

\* RST ...
HeadRst == << "R", "S", "T", " " >>

\* LD A, ...
HeadLdA == << "L", "D", " ", "A", "," >>

\* LD HL, ...
HeadLdHl == << "L", "D", " ", "H", "L", "," >>

\* T .EQU ...
HeadEquT == << "T", " ", ".", "E", "Q", "U", " " >>

\* LD A,(T)
LineLdAIndT == << "L", "D", " ", "A", ",", "(", "T", ")" >>

\* LD HL,(T)
LineLdHlIndT == << "L", "D", " ", "H", "L", ",", "(", "T", ")" >>

\* EX AF,AF'
LineExAf == << "E", "X", " ", "A", "F", ",", "A", "F", "'" >>

\* EX (SP),HL
LineExSp == << "E", "X", " ", "(", "S", "P", ")", ",", "H", "L" >>

\* NOP A
LineNopA == << "N", "O", "P", " ", "A" >>

\* LD A,B,C
LineLdThree == << "L", "D", " ", "A", ",", "B", ",", "C" >>

\* LD A
LineLdOne == << "L", "D", " ", "A" >>

\* HALT 5
LineHaltNum == << "H", "A", "L", "T", " ", "5" >>

\* PUSH 5
LinePushNum == << "P", "U", "S", "H", " ", "5" >>

\* INC
LineIncNone == << "I", "N", "C" >>

\* LD A,B
LineLdAB == << "L", "D", " ", "A", ",", "B" >>

\* RST A
LineRstReg == << "R", "S", "T", " ", "A" >>

\* RST
LineRstNone == << "R", "S", "T" >>

\* RST -8
LineRstNeg == << "R", "S", "T", " ", "-", "8" >>

\* RST V
LineRstV == << "R", "S", "T", " ", "V" >>

\* V .EQU 16
LineEquV == << "V", " ", ".", "E", "Q", "U", " ", "1", "6" >>

\* LD HL,$+3
LineLdHlDollar == << "L", "D", " ", "H", "L", ",", "$", "+", "3" >>

\* JP $
LineJpDollar == << "J", "P", " ", "$" >>

\* NOP
LinePlainNop == << "N", "O", "P" >>

\* The largest operand of the generated RST statements.
MaxRst == 64

Digits == << "0", "1", "2", "3", "4", "5", "6", "7", "8", "9" >>

\* The decimal numeral of n as characters.
RECURSIVE DecimalChars(_)
DecimalChars(n) ==
  IF n < 10 THEN << Digits[n + 1] >>
  ELSE DecimalChars(n \div 10) \o << Digits[(n % 10) + 1] >>

\* Addresses below, at and above the 8-bit limit, and the largest one.
AddressSamples == {0, 5, 255, 256, 4660, 65535}

RstPrograms ==
  { HeadRst \o DecimalChars(n) : n \in (0..MaxRst) \cup {255, 256, 312} }
    \cup { LineRstReg,
           LineRstNone,
           LineRstNeg,
           JoinLines(<< LineEquV, LineRstV >>),
           JoinLines(<< LinePlainNop, HeadRst \o DecimalChars(8) >>) }

LdPrograms ==
  UNION { { HeadLdA \o << "(" >> \o DecimalChars(a) \o << ")" >>,
            HeadLdHl \o << "(" >> \o DecimalChars(a) \o << ")" >>,
            HeadLdHl \o DecimalChars(a),
            JoinLines(<< HeadEquT \o DecimalChars(a), LineLdAIndT >>),
            JoinLines(<< HeadEquT \o DecimalChars(a), LineLdHlIndT >>) } : a \in AddressSamples }
    \cup { HeadLdA \o DecimalChars(a) : a \in { b \in AddressSamples : b <= 255 } }

ExPrograms == { LineEx, LineExAf, LineExSp }

PatternPrograms ==
  { LineNopA, LineLdThree, LineLdOne, LineHaltNum, LinePushNum, LineIncNone, LineLdAB,
    LinePlainNop }

DollarPrograms ==
  { LineLdHlDollar,
    LineJpDollar,
    JoinLines(<< LineOrgDefault, LineLdHlDollar >>),
    JoinLines(<< LineOrg, LineLdHlDollar >>),
    JoinLines(<< LinePlainNop, LineLdHlDollar >>),
    JoinLines(<< LineLdImm, LineLdHlDollar >>),
    JoinLines(<< LineLdHl, LineLdHlDollar >>),
    JoinLines(<< LineLdHlDollar, LineLdHlDollar >>) }

EncodeSources ==
  { JsString(s) :
      s \in RstPrograms \cup LdPrograms \cup ExPrograms \cup PatternPrograms \cup DollarPrograms }

InitEncode == InitWith(EncodeSources)

SpecEncode == InitEncode /\ [][Next]_vars

-----------------------------------------------------------------------------
(* C14 *)

\* Token t is the mnemonic of "LD reg,(x)" ending its line, x one token.
IsLoadIndirect(t, reg) ==
  /\ Tok(t).type = TOKEN_MNEMONIC
  /\ Tok(t).value = "LD"
  /\ Tok(t + 1).type = TOKEN_REGISTER
  /\ Tok(t + 1).value = reg
  /\ Tok(t + 2).type = TOKEN_COMMA
  /\ Tok(t + 3).type = TOKEN_LPAREN
  /\ Tok(t + 4).type \in {TOKEN_NUMBER, TOKEN_LABEL}
  /\ Tok(t + 5).type = TOKEN_RPAREN
  /\ Tok(t + 6).type \in {TOKEN_NEWLINE, TOKEN_EOF}

\* The address a number token or a bound label token names.
AddressNamed(u) ==
  IF Tok(u).type = TOKEN_NUMBER THEN Tok(u).value
  ELSE result.symbolTable[Tok(u).value].address

AddressIsKnown(u) ==
  Tok(u).type = TOKEN_LABEL => Tok(u).value \in DOMAIN result.symbolTable

\* The records of the statement at token t all carry these bytes.
EncodesAs(t, bytes) ==
  /\ \E i \in RecordIndices : Records[i].stmt = t
  /\ \A i \in RecordIndices : Records[i].stmt = t => Records[i].bytes = bytes

\* C14: a parenthesised address operand selects the memory-indirect
\* encoding: "LD A,(nn)" assembles to 0x3A lo hi and "LD HL,(nn)" to
\* 0x2A lo hi, nn given as a number or as a label.
C14_IndirectLoadEncoding ==
  Completed =>
    \A t \in TokenIndices :
      /\ (IsLoadIndirect(t, "A") /\ AddressIsKnown(t + 4)) =>
           EncodesAs(t, << 58, Lo(AddressNamed(t + 4)), Hi(AddressNamed(t + 4)) >>)
      /\ (IsLoadIndirect(t, "HL") /\ AddressIsKnown(t + 4)) =>
           EncodesAs(t, << 42, Lo(AddressNamed(t + 4)), Hi(AddressNamed(t + 4)) >>)

-----------------------------------------------------------------------------
(* C15 *)

\* The call assembled this one-line program to this single byte.
AssemblesToByte(line, byte) ==
  source = JsString(line) => (result.success /\ result.bytes = << byte >>)

\* C15: the exchange instructions assemble successfully to one byte each:
\* "EX DE,HL" to 0xEB, "EX AF,AF'" to 0x08 and "EX (SP),HL" to 0xE3.
C15_ExchangeEncodings ==
  Done =>
    /\ AssemblesToByte(LineEx, 235)
    /\ AssemblesToByte(LineExAf, 8)
    /\ AssemblesToByte(LineExSp, 227)

-----------------------------------------------------------------------------
(* C16 *)

\* Mnemonics whose only table entry has no operand.
OperandLess == {"NOP", "HALT", "DI", "EI", "SCF", "CCF", "CPL", "DAA", "EXX"}

\* What every table entry of the record's mnemonic has in common: the
\* operand-less mnemonics take no operand and LD takes exactly two.
OperandCountInTable(rec) ==
  /\ rec.mnemonic \in OperandLess => Len(rec.operands) = 0
  /\ rec.mnemonic = "LD" => Len(rec.operands) = 2

\* C16: the assembler never emits bytes for an operand pattern the encoding
\* table does not define: an instruction with a wrong operand count, or with
\* operands on an operand-less mnemonic, contributes no bytes.
C16_NoBytesOutsideTable ==
  Completed =>
    \A i \in RecordIndices :
      (Records[i].type = "INSTRUCTION" /\ Len(Records[i].bytes) > 0) =>
        OperandCountInTable(Records[i])

-----------------------------------------------------------------------------
(* C17 *)

\* The restart addresses of the Z80.
RstTargets == {0, 8, 16, 24, 32, 40, 48, 56}

\* Token t is the mnemonic of "RST n" ending its line, n a number.
IsRstNumber(t) ==
  /\ Tok(t).type = TOKEN_MNEMONIC
  /\ Tok(t).value = "RST"
  /\ Tok(t + 1).type = TOKEN_NUMBER
  /\ Tok(t + 2).type \in {TOKEN_NEWLINE, TOKEN_EOF}

\* Token t is the mnemonic of an RST whose operand is missing or is neither
\* a number nor a symbol.
IsRstNoAddress(t) ==
  /\ Tok(t).type = TOKEN_MNEMONIC
  /\ Tok(t).value = "RST"
  /\ Tok(t + 1).type \notin {TOKEN_NUMBER, TOKEN_LABEL}

\* The program is the statement at token t and nothing else.
OnlyStatement(t) == t = 0 /\ Tok(t + 2).type = TOKEN_EOF

\* C17: "RST n" assembles to the single byte 0xC7 | n exactly when n is one
\* of 0, 8, 0x10, 0x18, 0x20, 0x28, 0x30, 0x38; for every other operand value
\* the assembly reports an error and success is false.
C17_RstAcceptsOnlyRestartAddresses ==
  Done =>
    \A t \in TokenIndices :
      /\ IsRstNumber(t) =>
        IF Tok(t + 1).value \in RstTargets
        THEN /\ Completed => EncodesAs(t, << 199 + Tok(t + 1).value >>)
             /\ OnlyStatement(t) => Succeeded /\ result.bytes = << 199 + Tok(t + 1).value >>
        ELSE /\ result.success = FALSE
             /\ Len(result.errors) > 0
      /\ IsRstNoAddress(t) =>
           /\ result.success = FALSE
           /\ Len(result.errors) > 0

\* "RST 56" was assembled to 0xFF.
C17_Witness ==
  /\ Succeeded
  /\ \E t \in TokenIndices :
       /\ IsRstNumber(t)
       /\ Tok(t + 1).value = 56
       /\ EncodesAs(t, << 255 >>)

\* "RST 9" was rejected.
C17_WitnessRejected ==
  /\ Done
  /\ \E t \in TokenIndices : IsRstNumber(t) /\ Tok(t + 1).value = 9
  /\ result.success = FALSE

-----------------------------------------------------------------------------
(* C18 *)

\* Token t is the mnemonic of "LD HL,$+k" ending its line, k a number.
IsLoadDollar(t) ==
  /\ Tok(t).type = TOKEN_MNEMONIC
  /\ Tok(t).value = "LD"
  /\ Tok(t + 1).type = TOKEN_REGISTER
  /\ Tok(t + 1).value = "HL"
  /\ Tok(t + 2).type = TOKEN_COMMA
  /\ Tok(t + 3).type = TOKEN_OPERATOR
  /\ Tok(t + 3).value = "$"
  /\ Tok(t + 4).type = TOKEN_OPERATOR
  /\ Tok(t + 4).value = "+"
  /\ Tok(t + 5).type = TOKEN_NUMBER
  /\ Tok(t + 6).type \in {TOKEN_NEWLINE, TOKEN_EOF}

\* C18: "$" inside an instruction operand evaluates to the start address of
\* the instruction that contains it, the address that instruction carries in
\* the final output, whatever precedes it: "LD HL,$+k" at address a emits
\* 21 lo(a+k) hi(a+k).
C18_DollarIsInstructionAddress ==
  Completed =>
    \A t \in TokenIndices :
      IsLoadDollar(t) =>
        \A i \in RecordIndices :
          Records[i].stmt = t =>
            Records[i].bytes =
              << 33, Lo(Records[i].address + Tok(t + 5).value),
                     Hi(Records[i].address + Tok(t + 5).value) >>

-----------------------------------------------------------------------------
(* Programs that define one symbol by an expression *)

\* "X .EQU ", to be followed by an expression.
HeadEquX == << "X", " ", ".", "E", "Q", "U", " " >>

\* The largest operand of the generated expressions.
MaxOperand == 2

\* The largest dividend and divisor of the generated quotients.
MaxDividend == 9

MaxDivisor == 4

Operators == {"+", "-", "*", "/"}

\* The numeral of n, with a minus sign when n is negative.
SignedChars(n) == IF n < 0 THEN << "-" >> \o DecimalChars(0 - n) ELSE DecimalChars(n)

\* a op b for signed a and b.
BinaryExpressions ==
  { SignedChars(a) \o << op >> \o SignedChars(b) :
      a \in (0 - MaxOperand)..MaxOperand, op \in Operators, b \in (0 - MaxOperand)..MaxOperand }

\* a op1 b op2 c, bare and with either pair parenthesised.
TernaryExpressions ==
  UNION { { DecimalChars(a) \o << op1 >> \o DecimalChars(b) \o << op2 >> \o DecimalChars(c),
            << "(" >> \o DecimalChars(a) \o << op1 >> \o DecimalChars(b) \o << ")", op2 >>
              \o DecimalChars(c),
            DecimalChars(a) \o << op1, "(" >> \o DecimalChars(b) \o << op2 >> \o DecimalChars(c)
              \o << ")" >> } :
          a \in 0..MaxOperand, op1 \in Operators, b \in 0..MaxOperand,
          op2 \in Operators, c \in 0..MaxOperand }

\* a / b for signed a and b.
Quotients ==
  { SignedChars(a) \o << "/" >> \o SignedChars(b) :
      a \in (0 - MaxDividend)..MaxDividend, b \in (0 - MaxDivisor)..MaxDivisor }

ExpressionScenarios ==
  { << "-", "7", "/", "2" >>,
    << "7", "/", "-", "2" >>,
    << "-", "7", "/", "-", "2" >>,
    << "1", "0", "-", "3", "-", "2" >>,
    << "2", "+", "3", "*", "4" >>,
    << "(", "2", "+", "3", ")", "*", "4" >>,
    << "-", "(", "1", "+", "2", ")", "*", "-", "2" >>,
    << "8", "/", "2", "/", "2" >>,
    << "2", "*", "3", "-", "4", "/", "2" >>,
    << "1", "/", "(", "1", "-", "1", ")" >>,
    << "+", "5" >>,
    << "-", " ", "-", "2" >>,
    << "(", "(", "7", ")", ")" >>,
    << "1", "2", "/", "4", "*", "3" >>,
    << "2", "-", "(", "3", "-", "4", ")" >>,
    << "-", "3", "*", "-", "3" >>,
    << "7", "/", "0" >>,
    << "2", "0", "/", "3", "/", "2" >>,
    << "1", "+", "2", "-", "3", "+", "4" >>,
    << "2", "*", "(", "3", "+", "4", ")", "*", "5" >>,
    << "9", "-", "8", "/", "(", "4", "-", "2", "*", "2", ")" >> }

ExprSources ==
  { JsString(HeadEquX \o e) :
      e \in BinaryExpressions \cup TernaryExpressions \cup Quotients \cup ExpressionScenarios }

InitExpr == InitWith(ExprSources)

SpecExpr == InitExpr /\ [][Next]_vars

-----------------------------------------------------------------------------
(* C19 *)

\* The program "X .EQU a/b".
QuotientProgram(a, b) == JsString(HeadEquX \o SignedChars(a) \o << "/" >> \o SignedChars(b))

\* q is the greatest integer not above a / b, for b # 0.
IsFloorOf(q, a, b) ==
  IF b > 0 THEN b * q <= a /\ a < b * q + b
  ELSE b * q >= a /\ a > b * q + b

\* The value the call bound to X.
ValueOfX == result.symbolTable["X"].address

HasError(message) == \E i \in 1..Len(result.errors) : result.errors[i].message = message

-----------------------------------------------------------------------------
(* C20 *)

\* The program is "X .EQU e" on one line; e is tokens 2 .. ExprLast.
IsExprProgram ==
  /\ Len(parser.tokens) >= 4
  /\ Tok(0).type = TOKEN_LABEL
  /\ Tok(0).value = "X"
  /\ Tok(1).type = TOKEN_DIRECTIVE
  /\ Tok(1).value = ".EQU"
  /\ \A i \in TokenIndices : Tok(i).type # TOKEN_NEWLINE

ExprLast == Len(parser.tokens) - 2

\* Parentheses open before token j of the expression part starting at lo.
Depth(lo, j) ==
  Cardinality({ k \in lo..(j - 1) : Tok(k).type = TOKEN_LPAREN })
    - Cardinality({ k \in lo..(j - 1) : Tok(k).type = TOKEN_RPAREN })

\* The binary operators among ops in lo..hi outside every parenthesis: an
\* operator is binary when an operand ends just before it.
SplitPoints(lo, hi, ops) ==
  { j \in (lo + 1)..hi :
      /\ Tok(j).type = TOKEN_OPERATOR
      /\ Tok(j).value \in ops
      /\ Tok(j - 1).type \in {TOKEN_NUMBER, TOKEN_RPAREN}
      /\ Depth(lo, j) = 0 }

Last(S) == CHOOSE x \in S : \A y \in S : y <= x

Magnitude(n) == IF n < 0 THEN 0 - n ELSE n

\* The floor of a / b, found by search.
Quotient(a, b) ==
  CHOOSE q \in (0 - Magnitude(a) - 1)..(Magnitude(a) + 1) : IsFloorOf(q, a, b)

\* The value of tokens lo..hi by the grammar, found by splitting at the
\* operator that is applied last: the rightmost + or - outside parentheses,
\* else the rightmost * or /, else a sign, else a parenthesis, else a number.
\* ok is FALSE when a division by zero occurs.
RECURSIVE RefEval(_, _)
RefEval(lo, hi) ==
  LET adds == SplitPoints(lo, hi, {"+", "-"})
      muls == SplitPoints(lo, hi, {"*", "/"})
      j == IF adds # {} THEN Last(adds) ELSE Last(muls)
  IN IF adds # {} \/ muls # {}
     THEN LET l == RefEval(lo, j - 1)
              r == RefEval(j + 1, hi)
              op == Tok(j).value
          IN IF ~l.ok \/ ~r.ok THEN [ok |-> FALSE, v |-> 0]
             ELSE IF op = "+" THEN [ok |-> TRUE, v |-> l.v + r.v]
             ELSE IF op = "-" THEN [ok |-> TRUE, v |-> l.v - r.v]
             ELSE IF op = "*" THEN [ok |-> TRUE, v |-> l.v * r.v]
             ELSE IF r.v = 0 THEN [ok |-> FALSE, v |-> 0]
             ELSE [ok |-> TRUE, v |-> Quotient(l.v, r.v)]
     ELSE IF Tok(lo).type = TOKEN_OPERATOR
     THEN LET r == RefEval(lo + 1, hi)
          IN IF Tok(lo).value = "-" THEN [ok |-> r.ok, v |-> 0 - r.v] ELSE r
     ELSE IF Tok(lo).type = TOKEN_LPAREN THEN RefEval(lo + 1, hi - 1)
     ELSE [ok |-> TRUE, v |-> Tok(lo).value]

\* C20: the expression evaluator computes the value defined by the grammar:
\* * and / bind tighter than binary + and -, unary + and - bind tighter than
\* both, operators of one level associate to the left, and parentheses
\* override; the result equals the reference evaluation of the whole token
\* sequence.
C20_EvaluatorMatchesGrammar ==
  (Done /\ IsExprProgram) =>
    LET ref == RefEval(2, ExprLast)
    IN IF ref.ok
       THEN /\ Succeeded
            /\ "X" \in DOMAIN result.symbolTable
            /\ ValueOfX = ref.v
       ELSE /\ result.success = FALSE
            /\ HasError("Division by zero at line 1")

\* "X .EQU 2*3-4/2" bound X to 4: both products were formed before the
\* difference.
C20_Witness ==
  /\ Succeeded
  /\ source = JsString(HeadEquX \o << "2", "*", "3", "-", "4", "/", "2" >>)
  /\ RefEval(2, ExprLast) = [ok |-> TRUE, v |-> 4]
  /\ ValueOfX = 4

-----------------------------------------------------------------------------
(* Programs that exercise the number forms of the lexer *)

\* ".DB ", to be followed by operands.
HeadDb == << ".", "D", "B", " " >>

\* ".DW ", to be followed by operands.
HeadDw == << ".", "D", "W", " " >>

\* The largest literal of the generated number forms.
MaxLiteral == 256

HexDigits ==
  << "0", "1", "2", "3", "4", "5", "6", "7", "8", "9", "A", "B", "C", "D", "E", "F" >>

\* The hexadecimal numeral of n, upper case.
RECURSIVE HexChars(_)
HexChars(n) ==
  IF n < 16 THEN << HexDigits[n + 1] >>
  ELSE HexChars(n \div 16) \o << HexDigits[(n % 16) + 1] >>

\* The binary numeral of n.
RECURSIVE BinaryChars(_)
BinaryChars(n) ==
  IF n < 2 THEN << Digits[n + 1] >>
  ELSE BinaryChars(n \div 2) \o << Digits[(n % 2) + 1] >>

\* The documented ways of writing n: $FF, 0FFh, FFH, 255, %11111111.
DollarForm(n) == << "$" >> \o HexChars(n)

LeadingZeroForm(n) == << "0" >> \o HexChars(n) \o << "h" >>

SuffixForm(n) == HexChars(n) \o << "H" >>

DecimalForm(n) == DecimalChars(n)

BinaryForm(n) == << "%" >> \o BinaryChars(n)

NumberForms(n) ==
  { DollarForm(n), LeadingZeroForm(n), SuffixForm(n), DecimalForm(n), BinaryForm(n) }

\* Operands that begin with a "$" no hex digit follows.
DollarOperands ==
  { << "$" >>,
    << "$", "+", "3" >>,
    << "$", " ", "+", "3" >>,
    << "$", "-", "$" >>,
    << "$", ",", "1" >>,
    << "$", " ", ";", " ", "h", "e", "r", "e" >> }

LexSources ==
  { JsString(HeadDb \o f) : f \in UNION { NumberForms(n) : n \in 0..MaxLiteral } }
    \cup { JsString(HeadDw \o d) : d \in DollarOperands }

InitLex == InitWith(LexSources)

SpecLex == InitLex /\ [][Next]_vars

-----------------------------------------------------------------------------
(* C21 *)

\* The lexer has run on the source of this call.
Lexed == stage \notin {"idle", "lex"} /\ tokens # NoTokens

\* The lexer's tokens are the directive, one NUMBER of value n, and EOF.
LexesToNumber(n) ==
  /\ Len(tokens) = 3
  /\ tokens[2].type = TOKEN_NUMBER
  /\ tokens[2].value = n
  /\ tokens[3].type = TOKEN_EOF

\* C21: each documented number form lexes to exactly one NUMBER token whose
\* value is the literal read in its radix ($FF, 0FFh, FFH and 255 all give
\* 255, %10101010 gives 170), and a "$" no hex digit follows is the
\* current-address operator token.
C21_NumberFormsLexToValue ==
  Lexed =>
    /\ \A n \in 0..MaxLiteral :
         \A f \in NumberForms(n) :
           source = JsString(HeadDb \o f) => LexesToNumber(n)
    /\ \A d \in DollarOperands :
         source = JsString(HeadDw \o d) =>
           tokens[2].type = TOKEN_OPERATOR /\ tokens[2].value = "$"

-----------------------------------------------------------------------------
(* Programs with characters the lexer does not recognize *)

\* NOP @
LineNopBad == << "N", "O", "P", " ", "@" >>

\* LD A,#5
LineLdBad == << "L", "D", " ", "A", ",", "#", "5" >>

\* @@
LineTwoBad == << "@", "@" >>

\* L1: @ NOP
LineLabelBad == << "L", "1", ":", " ", "@", " ", "N", "O", "P" >>

\* .DB 1,@,2
LineDbBad == << ".", "D", "B", " ", "1", ",", "@", ",", "2" >>

\* # NOP
LineBadFirst == << "#", " ", "N", "O", "P" >>

\* RST 9
LineRstNine == << "R", "S", "T", " ", "9" >>

\* The characters of these programs that no lexer rule accepts.
BadChars == {"@", "#"}

CharTemplates ==
  { LinePlainNop, LineHalt, LineLdImm, LineBadChar, LineNopBad, LineLdBad, LineTwoBad,
    LineLabelBad, LineDbBad, LineBadFirst, LineRstNine }

CharScenarios ==
  { << LinePlainNop, LineBadChar, LineHalt >>,
    << LineBadChar, LinePlainNop, LineBadChar >>,
    << LineNopBad, LineLdBad, LineHalt >>,
    << LinePlainNop, LineDbBad, LineRstNine >> }

CharSources ==
  { JsString(JoinLines(<< a >>)) : a \in CharTemplates }
    \cup { JsString(JoinLines(<< a, b >>)) : a \in CharTemplates, b \in CharTemplates }
    \cup { JsString(JoinLines(s)) : s \in CharScenarios }

InitChars == InitWith(CharSources)

SpecChars == InitChars /\ [][Next]_vars

-----------------------------------------------------------------------------
(* C22 *)

\* The positions of the source that hold an unrecognized character.
BadPositions == { i \in 1..Len(source.chars) : source.chars[i] \in BadChars }

\* The line and column of position i, counted from the source text.
LineOf(i) == 1 + Cardinality({ j \in 1..(i - 1) : source.chars[j] = "\n" })

ColumnOf(i) == Cardinality({ j \in 1..i : \A k \in j..(i - 1) : source.chars[k] # "\n" })

\* The lexer's ERROR tokens for the character at position i.
ErrorTokensAt(i) ==
  { k \in 1..Len(tokens) :
      /\ tokens[k].type = "ERROR"
      /\ tokens[k].value = source.chars[i]
      /\ tokens[k].line = LineOf(i)
      /\ tokens[k].column = ColumnOf(i) }

\* The reported 'Unexpected character' errors for the character at position i.
CharErrorsAt(i) ==
  { k \in 1..Len(result.errors) :
      /\ result.errors[k].message = "Unexpected character: " \o source.chars[i]
      /\ result.errors[k].line = LineOf(i)
      /\ "column" \in DOMAIN result.errors[k]
      /\ result.errors[k].column = ColumnOf(i) }

\* Token t is an instruction every encoder accepts, on a line that holds no
\* unrecognized character.
CleanInstruction(t) ==
  /\ Tok(t).type = TOKEN_MNEMONIC
  /\ Tok(t).value \in {"NOP", "HALT", "LD"}
  /\ \A u \in TokenIndices : Tok(u).type = "ERROR" => Tok(u).line # Tok(t).line

\* C22: every unrecognized character becomes one ERROR token and scanning
\* continues; assemble() reports exactly one 'Unexpected character' error per
\* such token with its line and column, and the statements on other lines
\* are still assembled into bytes.
C22_BadCharactersAreReportedOnce ==
  /\ Lexed =>
       /\ \A i \in BadPositions : Cardinality(ErrorTokensAt(i)) = 1
       /\ Cardinality({ k \in 1..Len(tokens) : tokens[k].type = "ERROR" })
            = Cardinality(BadPositions)
  /\ Done =>
       /\ \A i \in BadPositions : Cardinality(CharErrorsAt(i)) = 1
       /\ \A t \in TokenIndices :
            CleanInstruction(t) =>
              /\ Completed
              /\ \E i \in RecordIndices : Records[i].stmt = t /\ Len(Records[i].bytes) > 0

-----------------------------------------------------------------------------
(* Programs that use the directive aliases *)

\* "M: ", a label for the directive that follows.
HeadLabelM == << "M", ":", " " >>

\* An alias, the dotted directive it stands for, and operand lists to try
\* them on.
DirectiveAliases ==
  { [alias |-> << "D", "E", "F", "M" >>, dotted |-> << ".", "D", "B" >>,
     operands |-> { << "\"", "A", "B", "\"" >>,
      << "\"", "A", "\"" >>,
      << "\"", "H", "E", "L", "L", "O", "\"" >>,
      << "\"", "A", "B", "\"", ",", "0" >> }],
    [alias |-> << "D", "E", "F", "B" >>, dotted |-> << ".", "D", "B" >>,
     operands |-> { << "1", ",", "2" >>,
      << "\"", "A", "B", "\"" >>,
      << "2", "5", "5" >> }],
    [alias |-> << "D", "E", "F", "W" >>, dotted |-> << ".", "D", "W" >>,
     operands |-> { << "5" >>,
      << "$", "1", "2", "3", "4" >>,
      << "1", ",", "2" >> }],
    [alias |-> << "D", "E", "F", "S" >>, dotted |-> << ".", "D", "S" >>,
     operands |-> { << "2" >>,
      << "1" >>,
      << "3" >> }] }

\* What may follow the directive: nothing, or a labelled instruction whose
\* address shows how far the directive advanced the address counter.
AliasTails == { << >>, << LineNop >> }

\* The program "[M: ]directive operands" followed by tail.
DirectiveProgram(directive, operands, labelled, tail) ==
  JsString(JoinLines(
    << (IF labelled THEN HeadLabelM ELSE << >>) \o directive \o << " " >> \o operands >>
      \o tail))

AliasSources ==
  UNION { { DirectiveProgram(d, ops, labelled, tail) :
              d \in {a.alias, a.dotted}, ops \in a.operands,
              labelled \in BOOLEAN, tail \in AliasTails } : a \in DirectiveAliases }

InitAlias == InitWith(AliasSources)

SpecAlias == InitAlias /\ [][Next]_vars

-----------------------------------------------------------------------------
(* C23 *)

\* This call, of the alias spelling of a program, returned the bytes, the
\* verdict and the symbols that the dotted spelling gives.
SameAsDotted(a, ops, labelled, tail) ==
  LET dotted == assemble(DirectiveProgram(a.dotted, ops, labelled, tail))
  IN /\ result.bytes = dotted.bytes
     /\ result.success = dotted.success
     /\ result.symbolTable = dotted.symbolTable

\* C23: the alias DEFM behaves the same as .DB with a string operand: it
\* emits the same bytes and advances the address counter by the same amount,
\* as DEFB, DEFW and DEFS do for their dotted forms.
C23_AliasesMatchDottedForms ==
  Done =>
    \A a \in DirectiveAliases :
      \A ops \in a.operands, labelled \in BOOLEAN, tail \in AliasTails :
        source = DirectiveProgram(a.alias, ops, labelled, tail) =>
          SameAsDotted(a, ops, labelled, tail)

-----------------------------------------------------------------------------
(* Programs of one instruction followed by a label *)

\* Instructions of every family the encoders handle.
SizedInstructions ==
  { << "N", "O", "P" >>,
    << "H", "A", "L", "T" >>,
    << "R", "E", "T" >>,
    << "R", "E", "T", " ", "N", "Z" >>,
    << "L", "D", " ", "A", ",", "5" >>,
    << "L", "D", " ", "A", ",", "B" >>,
    << "L", "D", " ", "A", ",", "(", "H", "L", ")" >>,
    << "L", "D", " ", "(", "H", "L", ")", ",", "A" >>,
    << "L", "D", " ", "(", "H", "L", ")", ",", "5" >>,
    << "L", "D", " ", "H", "L", ",", "5" >>,
    << "L", "D", " ", "H", "L", ",", "$", "1", "2", "3", "4" >>,
    << "L", "D", " ", "B", "C", ",", "0" >>,
    << "L", "D", " ", "D", "E", ",", "2", "5", "5" >>,
    << "L", "D", " ", "S", "P", ",", "H", "L" >>,
    << "L", "D", " ", "A", ",", "(", "B", "C", ")" >>,
    << "L", "D", " ", "(", "5", ")", ",", "A" >>,
    << "L", "D", " ", "(", "$", "1", "2", "3", "4", ")", ",", "A" >>,
    << "L", "D", " ", "(", "$", "1", "2", "3", "4", ")", ",", "H", "L" >>,
    << "L", "D", " ", "A", ",", "L", "1" >>,
    << "L", "D", " ", "H", "L", ",", "L", "1" >>,
    << "J", "P", " ", "5" >>,
    << "J", "P", " ", "L", "1" >>,
    << "J", "P", " ", "N", "Z", ",", "L", "1" >>,
    << "J", "P", " ", "(", "H", "L", ")" >>,
    << "C", "A", "L", "L", " ", "5" >>,
    << "C", "A", "L", "L", " ", "L", "1" >>,
    << "C", "A", "L", "L", " ", "Z", ",", "L", "1" >>,
    << "J", "R", " ", "L", "1" >>,
    << "J", "R", " ", "N", "Z", ",", "L", "1" >>,
    << "D", "J", "N", "Z", " ", "L", "1" >>,
    << "A", "D", "D", " ", "A", ",", "B" >>,
    << "A", "D", "D", " ", "A", ",", "5" >>,
    << "A", "D", "D", " ", "H", "L", ",", "B", "C" >>,
    << "A", "D", "C", " ", "A", ",", "B" >>,
    << "S", "U", "B", " ", "B" >>,
    << "S", "U", "B", " ", "5" >>,
    << "A", "N", "D", " ", "5" >>,
    << "O", "R", " ", "B" >>,
    << "X", "O", "R", " ", "A" >>,
    << "C", "P", " ", "5" >>,
    << "C", "P", " ", "(", "H", "L", ")" >>,
    << "I", "N", "C", " ", "A" >>,
    << "I", "N", "C", " ", "H", "L" >>,
    << "I", "N", "C", " ", "(", "H", "L", ")" >>,
    << "D", "E", "C", " ", "B" >>,
    << "D", "E", "C", " ", "B", "C" >>,
    << "P", "U", "S", "H", " ", "B", "C" >>,
    << "P", "O", "P", " ", "H", "L" >>,
    << "P", "U", "S", "H", " ", "A", "F" >>,
    << "R", "S", "T", " ", "8" >>,
    << "R", "S", "T", " ", "5", "6" >>,
    << "B", "I", "T", " ", "0", ",", "A" >>,
    << "S", "E", "T", " ", "1", ",", "B" >>,
    << "R", "E", "S", " ", "7", ",", "(", "H", "L", ")" >>,
    << "R", "L", "C", " ", "A" >>,
    << "S", "R", "L", " ", "B" >>,
    << "I", "N", " ", "A", ",", "(", "5", ")" >>,
    << "O", "U", "T", " ", "(", "5", ")", ",", "A" >>,
    << "N", "E", "G" >>,
    << "L", "D", "I", "R" >>,
    << "R", "E", "T", "I" >>,
    << "D", "I" >>,
    << "E", "I" >>,
    << "E", "X", "X" >>,
    << "C", "P", "L" >>,
    << "R", "L", "C", "A" >> }

\* The instruction, then "L1: NOP": the address of L1 shows the size the
\* instruction was given.
SizeSources == { JsString(JoinLines(<< i, LineNop >>)) : i \in SizedInstructions }

InitSize == InitWith(SizeSources)

SpecSize == InitSize /\ [][Next]_vars

-----------------------------------------------------------------------------
(* C24 *)

\* The address pass 1 gave the symbol: the parser's table, which only pass 1
\* writes.
Pass1Address(name) == parser.symbolTable[name].address

\* C24: for every instruction the encoder accepts, the pass-1 sizer returns
\* exactly the number of bytes the code generator emits for it, so the
\* address pass 1 assigns to a label equals the address the code generator
\* assigns to the labelled statement.
C24_SizerMatchesEncoder ==
  Completed =>
    \A t \in TokenIndices :
      (DefinesLabel(t) /\ DefinedOnce(t) /\ Tok(t).value \in DOMAIN parser.symbolTable) =>
        \A i \in RecordIndices :
          FirstRecordOf(Records, StatementOf(t), i) =>
            /\ Pass1Address(Tok(t).value) = Records[i].address
            /\ (i = 2 /\ Records[1].address = DEFAULT_ORG) =>
                 Pass1Address(Tok(t).value) - DEFAULT_ORG = Len(Records[1].bytes)

-----------------------------------------------------------------------------
(* Programs whose instructions refer to a label *)

\* Instructions with a label operand, of every family that takes an address.
RefInstructions ==
  { << "J", "P", " ", "L", "1" >>,
    << "J", "P", " ", "N", "Z", ",", "L", "1" >>,
    << "C", "A", "L", "L", " ", "L", "1" >>,
    << "J", "R", " ", "L", "1" >>,
    << "J", "R", " ", "N", "Z", ",", "L", "1" >>,
    << "D", "J", "N", "Z", " ", "L", "1" >>,
    << "L", "D", " ", "A", ",", "L", "1" >>,
    << "L", "D", " ", "H", "L", ",", "L", "1" >>,
    << "L", "D", " ", "B", "C", ",", "L", "1" >>,
    << "L", "D", " ", "A", ",", "(", "L", "1", ")" >>,
    << "L", "D", " ", "(", "L", "1", ")", ",", "A" >>,
    << "L", "D", " ", "(", "L", "1", ")", ",", "H", "L" >>,
    << "A", "D", "D", " ", "A", ",", "L", "1" >>,
    << "C", "P", " ", "L", "1" >> }

\* "L1: .DB 1", a labelled data statement.
LineLabelDb == << "L", "1", ":", " ", ".", "D", "B", " ", "1" >>

\* What may stand before the referring instruction and between it and the
\* label: nothing, instructions of one, two and three bytes, and a block
\* that puts the label at the edge of the relative range.
RefPadding == { << >>, << LinePlainNop >>, << LineLdHl >>, << LineLdHl, LineDs125 >> }

RefSources ==
  { JsString(JoinLines(before \o << r >> \o between \o << l >>)) :
      before \in RefPadding \ {<< LineLdHl, LineDs125 >>}, r \in RefInstructions,
      between \in RefPadding, l \in {LineNop, LineLabelDb} }
    \cup { JsString(JoinLines(<< LineNop >> \o between \o << r >>)) :
             between \in RefPadding, r \in RefInstructions }

InitRefs == InitWith(RefSources)

SpecRefs == InitRefs /\ [][Next]_vars

-----------------------------------------------------------------------------
(* C25 *)

\* Every record is at the start address plus the bytes of the records
\* before it: the first is at the start address and each other one begins
\* where the one before it ends.
Contiguous(recs) ==
  \A i \in 1..Len(recs) :
    recs[i].address =
      IF i = 1 THEN DEFAULT_ORG ELSE recs[i - 1].address + Len(recs[i - 1].bytes)

\* The second pass of generate() took the records from before to after.
SameLengths(before, after) ==
  /\ Len(after) = Len(before)
  /\ \A i \in 1..Len(before) :
       /\ Len(after[i].bytes) = Len(before[i].bytes)
       /\ after[i].address = before[i].address

\* C25: in the code generator's second pass, re-encoding an instruction that
\* has label operands against the completed symbol table never changes the
\* length of its bytes, so every record's address stays equal to the start
\* address plus the total byte length of the records before it.
C25_SecondPassKeepsLengths ==
  [][stage = "gen2" =>
       /\ SameLengths(codegen.result, codegen'.result)
       /\ Contiguous(codegen'.result)]_vars

\* The second pass has re-encoded "JP L1" of "LD HL,5 / JP L1 / L1: NOP"
\* with the final address of L1, 0x4206, where the first pass used 0x4205.
C25_Witness ==
  /\ stage = "emit"
  /\ source = JsString(JoinLines(<< LineLdHl, << "J", "P", " ", "L", "1" >>, LineNop >>))
  /\ needsReresolve(codegen.result[2])
  /\ codegen.result[2].bytes = << 195, 6, 66 >>
  /\ Contiguous(codegen.result)

-----------------------------------------------------------------------------
(* Programs of one .DB statement *)

\* "DEFB ", to be followed by operands.
HeadDefb == << "D", "E", "F", "B", " " >>

\* Operands of .DB and the number of bytes each stands for: 1 for a number,
\* a label or an expression, the length for a string.
DbOperands ==
  { [text |-> << "1" >>, size |-> 1],
    [text |-> << "2", "5", "5" >>, size |-> 1],
    [text |-> << "\"", "A", "B", "\"" >>, size |-> 2],
    [text |-> << "\"", "A", "\"" >>, size |-> 1],
    [text |-> << "Y" >>, size |-> 1],
    [text |-> << "1", "+", "2" >>, size |-> 1],
    [text |-> << "2", "*", "3" >>, size |-> 1],
    [text |-> << "-", "1" >>, size |-> 1],
    [text |-> << "(", "1", ")" >>, size |-> 1],
    [text |-> << "Y", "+", "1" >>, size |-> 1] }

\* The operand lists tried: one operand, and two separated by a comma.
DbOperandLists ==
  { << a >> : a \in DbOperands } \cup { << a, b >> : a \in DbOperands, b \in DbOperands }

\* The text of an operand list.
DbText(ops) ==
  IF Len(ops) = 1 THEN ops[1].text ELSE ops[1].text \o << "," >> \o ops[2].text

\* The number of bytes the operand list stands for.
DbSize(ops) == IF Len(ops) = 1 THEN ops[1].size ELSE ops[1].size + ops[2].size

\* "Y .EQU 5", the statement under test, and "L1: NOP", whose address shows
\* how far pass 1 advanced.
DbProgram(head, ops) == JsString(JoinLines(<< LineEquY, head \o DbText(ops), LineNop >>))

DbSources == { DbProgram(head, ops) : head \in {HeadDb, HeadDefb}, ops \in DbOperandLists }

InitDb == InitWith(DbSources)

SpecDb == InitDb /\ [][Next]_vars

-----------------------------------------------------------------------------
(* C26 *)

\* The .DB or DEFB directive token of the program.
DbToken ==
  CHOOSE t \in TokenIndices :
    Tok(t).type = TOKEN_DIRECTIVE /\ Tok(t).value \in {".DB", "DEFB"}

\* The parser as parseDirectivePass1 hands it to parseDBPass1: just after
\* the directive.
AtDbOperands == [parser EXCEPT !.pos = DbToken + 1]

\* C26: for every .DB/DEFB statement, pass 1 advances currentAddress by one
\* per scalar operand (number, label or expression) plus the length of each
\* string operand, which is exactly the number of bytes pass 2 emits for the
\* statement, and pass 1 leaves the token position where pass 2 re-reads the
\* operands.
C26_DbSizeMatchesBytes ==
  Completed =>
    \A head \in {HeadDb, HeadDefb}, ops \in DbOperandLists :
      source = DbProgram(head, ops) =>
        /\ parseDBPass1(AtDbOperands).currentAddress
             = AtDbOperands.currentAddress + DbSize(ops)
        /\ parseDBPass1(AtDbOperands).pos = DbToken + 1
        /\ Pass1Address("L1") = DEFAULT_ORG + DbSize(ops)
        /\ Cardinality({ i \in RecordIndices : Records[i].stmt = DbToken }) = DbSize(ops)
        /\ \A i \in RecordIndices : Records[i].stmt = DbToken => Len(Records[i].bytes) = 1

-----------------------------------------------------------------------------
(* Programs in which the code generator rejects one statement *)

\* JR $4400
LineJrFar == << "J", "R", " ", "$", "4", "4", "0", "0" >>

\* JP Y
LineJpUndefined == << "J", "P", " ", "Y" >>

\* Statements the code generator throws on: an invalid RST address, an
\* unsupported instruction, an unsupported operand pattern, a relative jump
\* out of range and an undefined symbol.
RejectedLines ==
  { LineRstNine, LineEx, LineLdOne, LinePushNum, LineJrFar, LineJpUndefined }

\* Statements every stage accepts.
AcceptedLines == { LinePlainNop, LineNop, LineLdImm, LineHalt, LineDb }

FatalSources ==
  { JsString(JoinLines(<< g, r >>)) : g \in AcceptedLines, r \in RejectedLines }
    \cup { JsString(JoinLines(<< r, g >>)) : g \in AcceptedLines, r \in RejectedLines }
    \cup { JsString(JoinLines(<< g, r, h >>)) :
             g \in AcceptedLines, r \in RejectedLines, h \in AcceptedLines }
    \cup { JsString(JoinLines(<< g, h >>)) : g \in AcceptedLines, h \in AcceptedLines }

InitFatal == InitWith(FatalSources)

SpecFatal == InitFatal /\ [][Next]_vars

-----------------------------------------------------------------------------
(* C27 *)

\* Token t is the mnemonic of a statement the code generator throws on.
IsRejected(t) ==
  /\ Tok(t).type = TOKEN_MNEMONIC
  /\ Tok(t).value \in {"RST", "EX", "PUSH", "JR", "JP"}
       \/ (Tok(t).value = "LD" /\ Tok(t + 2).type # TOKEN_COMMA)

\* Token t is the mnemonic or data directive of an accepted statement.
IsAccepted(t) ==
  \/ Tok(t).type = TOKEN_MNEMONIC /\ ~IsRejected(t)
  \/ Tok(t).type = TOKEN_DIRECTIVE /\ Tok(t).value = ".DB"

\* C27: a code-generator error is fatal only to the statement in which it
\* occurs: the error is reported, and the bytes and the symbols of the other
\* statements are still produced in the result.
C27_CodegenErrorIsLocal ==
  (Done /\ \E r \in TokenIndices : IsRejected(r)) =>
    /\ result.success = FALSE
    /\ Len(result.errors) > 0
    /\ Completed
    /\ \A t \in TokenIndices :
         /\ IsAccepted(t) =>
              \E i \in RecordIndices : Records[i].stmt = t /\ Len(Records[i].bytes) > 0
         /\ DefinesLabel(t) => Tok(t).value \in DOMAIN result.symbolTable

-----------------------------------------------------------------------------
(* Programs in which the parser rejects one statement *)

\* LD A,(HL
LineLdUnclosed == << "L", "D", " ", "A", ",", "(", "H", "L" >>

\* LD A,5/0
LineLdDivZero == << "L", "D", " ", "A", ",", "5", "/", "0" >>

\* .DS 5/0
LineDsDivZero == << ".", "D", "S", " ", "5", "/", "0" >>

\* .DB 1,5/0
LineDbDivZero == << ".", "D", "B", " ", "1", ",", "5", "/", "0" >>

\* .DW 1,5/0
LineDwDivZero == << ".", "D", "W", " ", "1", ",", "5", "/", "0" >>

\* LD (5,A
LineLdUnclosedNum == << "L", "D", " ", "(", "5", ",", "A" >>

\* X .EQU Y
LineEquUndefined == << "X", " ", ".", "E", "Q", "U", " ", "Y" >>

\* Statements on which the parser throws: a missing operand, a missing
\* parenthesis, a division by zero in an operand or an argument, an undefined
\* symbol in an EQU, an operand that is no token of the language.
ParseErrorLines ==
  { LineBadOperand, LineLdUnclosed, LineLdDivZero, LineDsDivZero, LineDbDivZero,
    LineDwDivZero, LineLdUnclosedNum, LineEquUndefined, LineNopBad }

\* Programs as their lines and the numbers of the lines the parser rejects.
ParseErrorPrograms ==
  { [lines |-> << e, g >>, bad |-> {1}] : e \in ParseErrorLines, g \in AcceptedLines }
    \cup { [lines |-> << g, e >>, bad |-> {2}] : e \in ParseErrorLines, g \in AcceptedLines }
    \cup { [lines |-> << g, e, h >>, bad |-> {2}] :
             e \in ParseErrorLines, g \in AcceptedLines, h \in AcceptedLines }
    \cup { [lines |-> << e, f, g >>, bad |-> {1, 2}] :
             e \in ParseErrorLines, f \in {LineBadOperand, LineDsDivZero},
             g \in {LinePlainNop, LineDb} }
    \cup { [lines |-> << g, h >>, bad |-> {}] : g \in AcceptedLines, h \in AcceptedLines }

ParseErrorSources == { JsString(JoinLines(P.lines)) : P \in ParseErrorPrograms }

InitParseError == InitWith(ParseErrorSources)

SpecParseError == InitParseError /\ [][Next]_vars

-----------------------------------------------------------------------------
(* C28 *)

HasErrorOnLine(l) == \E k \in 1..Len(result.errors) : result.errors[k].line = l

\* Some record was emitted by a statement of line l.
RecordOnLine(l) == \E i \in RecordIndices : Tok(Records[i].stmt).line = l

\* C28: a parser error raised while handling one statement, in pass 1 or
\* pass 2, is appended to the diagnostics and the parser resumes at the token
\* after the next NEWLINE: every later statement is still parsed and still
\* emits its records, and the erroneous statement emits no record.
C28_ParserErrorSkipsOneStatement ==
  Done =>
    \A P \in ParseErrorPrograms :
      source = JsString(JoinLines(P.lines)) =>
        /\ Completed
        /\ \A l \in 1..Len(P.lines) :
             IF l \in P.bad
             THEN HasErrorOnLine(l) /\ ~RecordOnLine(l)
             ELSE ~HasErrorOnLine(l) /\ RecordOnLine(l)

-----------------------------------------------------------------------------
(* Programs whose symbols lie at the edges of the address space *)

\* "X .DEFL ", to be followed by an expression.
HeadDeflX == << "X", " ", ".", "D", "E", "F", "L", " " >>

\* ".ORG ", to be followed by an address.
HeadOrg == << ".", "O", "R", "G", " " >>

\* L4:
LineLabelOnly == << "L", "4", ":" >>

\* .DS 3
LineDsThree == << ".", "D", "S", " ", "3" >>

\* Values of an EQU or DEFL: inside the 16-bit range, negative and above it.
EdgeValues ==
  { << "0" >>,
    << "1" >>,
    << "$", "F", "F", "F", "F" >>,
    << "$", "F", "F", "F", "F", "+", "1" >>,
    << "6", "5", "5", "3", "6" >>,
    << "-", "1" >>,
    << "0", "-", "5" >>,
    << "$", "F", "F", "F", "F", "*", "2" >>,
    << "$", "8", "0", "0", "0", "+", "$", "7", "F", "F", "F" >>,
    << "-", "3", "2", "7", "6", "8" >> }

\* Origins: at the top of the address space, at zero and at the default.
EdgeOrigins ==
  { << "$", "F", "F", "F", "F" >>,
    << "$", "F", "F", "F", "E" >>,
    << "$", "F", "F", "F", "D" >>,
    << "0" >>,
    << "$", "4", "2", "0", "0" >> }

\* Statements that advance the address counter by one, two and three.
EdgeBodies == { LinePlainNop, LineLdImm, LineDb, LineDsThree }

\* A statement that ends the program: a labelled instruction or a label alone.
EdgeTails == { LineNop, LineLabelOnly }

SymbolRangeSources ==
  { JsString(JoinLines(<< head \o v, LineNop >>)) :
      head \in {HeadEquX, HeadDeflX}, v \in EdgeValues }
    \cup { JsString(JoinLines(<< HeadOrg \o o, b, t >>)) :
             o \in EdgeOrigins, b \in EdgeBodies, t \in EdgeTails }

InitSymbolRange == InitWith(SymbolRangeSources)

SpecSymbolRange == InitSymbolRange /\ [][Next]_vars

-----------------------------------------------------------------------------
(* C29 *)

\* C29: every address stored in the final symbol table, for symbols of kind
\* LABEL, EQU and DEFL, lies in 0..0xFFFF, also when the .ORG target plus the
\* emitted size passes 0xFFFF and when the value of an EQU or DEFL expression
\* is negative or above 0xFFFF.
C29_SymbolAddressesAreSixteenBit ==
  Done =>
    \A name \in DOMAIN result.symbolTable :
      /\ result.symbolTable[name].type \in {"LABEL", "EQU", "DEFL"}
      /\ result.symbolTable[name].address \in 0..65535

-----------------------------------------------------------------------------
(* assemble() followed one loop iteration at a time: each scanToken call of
   tokenize() and each iteration of the two statement loops of parse() is a
   step of its own.  The call runs on the calling thread with no suspension
   point, so a step that can be taken is taken. *)

\* 5
LineNumberOnly == << "5" >>

\* , NOP
LineCommaNop == << ",", " ", "N", "O", "P" >>

\* )
LineParenOnly == << ")" >>

\* LD A,"AB
LineUnterminated == << "L", "D", " ", "A", ",", "\"", "A", "B" >>

\* .END
LineEnd == << ".", "E", "N", "D" >>

\* ; c
LineComment == << ";", " ", "c" >>

\*  <tab>
LineBlank == << " ", "\t" >>

\* L5
LineLabelAlone == << "L", "5" >>

\* Lines that are no statement: a number, a comma, a parenthesis or a
\* label with nothing after it, a comment, white space.
UnrecognizedLines ==
  { LineNumberOnly, LineCommaNop, LineParenOnly, LineLabelAlone, LineComment, LineBlank,
    LineBadChar }

\* Lines on which the lexer or the parser reports an error.
RaisingLines ==
  { LineBadOperand, LineLdUnclosed, LineDbDivZero, LineEquUndefined, LineNopBad,
    LineUnterminated }

StepLines == UnrecognizedLines \cup RaisingLines \cup {LineEnd, LineRstNine}

StepPrograms ==
  { << g, l >> : g \in {LinePlainNop, LineDb}, l \in StepLines }
    \cup { << l, g >> : l \in StepLines, g \in {LineNop, LineLdImm} }
    \cup { << l, m >> : l \in UnrecognizedLines \cup {LineEnd}, m \in RaisingLines }
    \cup { << l, LineEnd, m >> : l \in {LinePlainNop, LineBadOperand}, m \in StepLines }

StepSources == { JsString(JoinLines(P)) : P \in StepPrograms }

InitSteps == InitWith(StepSources)

\* parse(), lines 22-26: the assignments before the pass-1 loop.
startPass1(p) ==
  [p EXCEPT !.pass = 1, !.pos = 0, !.currentAddress = DEFAULT_ORG,
            !.symbolTable = EmptyTable]

\* parse(), lines 37-41: the assignments before the pass-2 loop.
startPass2(p) ==
  [p EXCEPT !.pass = 2, !.pos = 0, !.currentAddress = DEFAULT_ORG,
            !.instructions = << >>]

\* One iteration of the pass-1 loop: the try block and its catch clause.
pass1Iteration(p) ==
  LET r == Invoke("parseLinePass1", << p >>)
  IN IF r.exc # NoExc THEN catchParseError(r.p, r.exc) ELSE r.p

\* One iteration of the pass-2 loop: the try block and its catch clause.
pass2Iteration(p) ==
  LET r == Invoke("parseLinePass2", << p >>)
  IN IF r.exc # NoExc THEN catchParseError(r.p, r.exc) ELSE r.p

\* tokenize(): one iteration of `while (!this.isAtEnd()) this.scanToken()`.
ScanStep ==
  /\ stage = "lex"
  /\ ~LexIsAtEnd(lexer)
  /\ lexer' = Invoke("scanToken", << lexer >>)
  /\ UNCHANGED << source, stage, asmErrors, asmWarnings, tokens, parser, codegen, result,
                  stagesRun, calls, history >>

\* tokenize() leaves its loop and pushes EOF; assemble() reports the ERROR
\* tokens, constructs the Parser and parse() starts pass 1.
ScanEnd ==
  /\ stage = "lex"
  /\ LexIsAtEnd(lexer)
  /\ LET lx == LexPush(lexer, makeToken(lexer, TOKEN_EOF, "")) IN
       /\ lexer' = lx
       /\ tokens' = lx.tokens
       /\ asmErrors' = asmErrors \o lexerErrors(lx.tokens)
       /\ parser' = startPass1(NewParser(lx.tokens))
  /\ stage' = "parse1"
  /\ stagesRun' = Append(stagesRun, "lexer")
  /\ UNCHANGED << source, asmWarnings, codegen, result, calls, history >>

\* parse(): one iteration of the pass-1 loop.
Pass1Step ==
  /\ stage = "parse1"
  /\ ~isAtEnd(parser)
  /\ parser' = pass1Iteration(parser)
  /\ UNCHANGED << source, stage, asmErrors, asmWarnings, lexer, tokens, codegen, result,
                  stagesRun, calls, history >>

\* parse() leaves the pass-1 loop and starts pass 2.
Pass1End ==
  /\ stage = "parse1"
  /\ isAtEnd(parser)
  /\ parser' = startPass2(parser)
  /\ stage' = "parse2"
  /\ stagesRun' = Append(stagesRun, "parser")
  /\ UNCHANGED << source, asmErrors, asmWarnings, lexer, tokens, codegen, result, calls,
                  history >>

\* parse(): one iteration of the pass-2 loop.
Pass2Step ==
  /\ stage = "parse2"
  /\ ~isAtEnd(parser)
  /\ parser' = pass2Iteration(parser)
  /\ UNCHANGED << source, stage, asmErrors, asmWarnings, lexer, tokens, codegen, result,
                  stagesRun, calls, history >>

\* parse() leaves the pass-2 loop and returns; assemble() takes over the
\* parser's errors and warnings.
Pass2End ==
  /\ stage = "parse2"
  /\ isAtEnd(parser)
  /\ asmErrors' = asmErrors \o parseResult(parser).errors
  /\ asmWarnings' = asmWarnings \o parseResult(parser).warnings
  /\ stage' = "gen1"
  /\ UNCHANGED << source, lexer, tokens, parser, codegen, result, stagesRun, calls,
                  history >>

NextSteps ==
  \/ Call
  \/ ScanStep
  \/ ScanEnd
  \/ Pass1Step
  \/ Pass1End
  \/ Pass2Step
  \/ Pass2End
  \/ GenerateFirst
  \/ GenerateSecond
  \/ Return

\* ENABLED <<ScanStep>>_vars
CanScan == stage = "lex" /\ ~LexIsAtEnd(lexer) /\ Invoke("scanToken", << lexer >>) # lexer

\* ENABLED <<Pass1Step>>_vars
CanPass1 == stage = "parse1" /\ ~isAtEnd(parser) /\ pass1Iteration(parser) # parser

\* ENABLED <<Pass2Step>>_vars
CanPass2 == stage = "parse2" /\ ~isAtEnd(parser) /\ pass2Iteration(parser) # parser

\* ENABLED <<GenerateFirst>>_vars: the step always leaves stage "gen1".
CanGenerate == stage = "gen1"

\* The call runs to completion on the calling thread: a step that stays
\* possible is taken.  For the three loop iterations and for GenerateFirst
\* weak fairness is written out, WF_vars(A) being
\* []<>~(ENABLED <<A>>_vars) \/ []<><<A>>_vars.
RunsToCompletion ==
  /\ WF_vars(Call)
  /\ []<>(~CanScan) \/ []<><<ScanStep>>_vars
  /\ WF_vars(ScanEnd)
  /\ []<>(~CanPass1) \/ []<><<Pass1Step>>_vars
  /\ WF_vars(Pass1End)
  /\ []<>(~CanPass2) \/ []<><<Pass2Step>>_vars
  /\ WF_vars(Pass2End)
  /\ []<>(~CanGenerate) \/ []<><<GenerateFirst>>_vars
  /\ WF_vars(GenerateSecond)
  /\ WF_vars(Return)

SpecSteps == InitSteps /\ [][NextSteps]_vars /\ RunsToCompletion

-----------------------------------------------------------------------------
(* C30 *)

\* A scanToken call leaves the lexer further on in the source.
ScanAdvances == (stage = "lex" /\ stage' = "lex") => lexer'.pos > lexer.pos

\* An iteration of a statement loop leaves the parser further on in the
\* token list.
LineAdvances ==
  (stage \in {"parse1", "parse2"} /\ stage' = stage) => parser'.pos > parser.pos

\* C30: assemble() terminates on every source: each scanToken call consumes
\* at least one character, each iteration of the pass-1 and pass-2 statement
\* loops consumes at least one token, also for statements that raise errors,
\* for unrecognized statements and after .END, and the call returns.
C30_AssembleTerminates ==
  /\ [][ScanAdvances /\ LineAdvances]_vars
  /\ <>Done

\* A call has returned for a program with a statement that raises an error,
\* a directive .END and an unrecognized line after it.
C30_Witness ==
  /\ Done
  /\ source = JsString(JoinLines(<< LineBadOperand, LineEnd, LineNumberOnly >>))
  /\ Len(result.errors) > 0

=============================================================================
